---- MODULE Spec2Model ----
(***************************************************************************)
(* Booking core of the personal-trainer booking server: the route handlers *)
(* of server.js (POST /api/booking, DELETE /api/booking/:id, DELETE        *)
(* /api/session/:id, /login, /logout), the Booking pre-save hook, and the  *)
(* reminder scheduler of reminderScheduler.js.                             *)
(*                                                                         *)
(* Instants are whole seconds since an epoch that falls on a local         *)
(* midnight; the server's local time zone is taken to be the zone the      *)
(* stored dates are expressed in.  Every "await" of a handler is one step: *)
(* the awaited store operation takes effect and the handler's code up to   *)
(* the next await runs.                                                    *)
(***************************************************************************)
EXTENDS Integers, Sequences, FiniteSets, TLC

VARIABLES
    now,            \* the wall clock (new Date(), moment())
    currentUser,    \* the process-wide authenticated user, "none" when null
    users,          \* User collection: package fields per user id
    sessions,       \* Session collection: a set of documents
    bookings,       \* Booking collection: a set of documents
    nextBookingId,  \* source of fresh Booking _id values
    req,            \* in-flight HTTP requests: position and locals of each
    scan,           \* in-flight runs of sendSessionReminders
    reminders,      \* reminder mails delivered so far, per booking id
    nextSessionId,  \* source of fresh Session _id values
    reminderCalls,  \* sendSessionReminder calls made so far, per booking id
    faults          \* awaited store operations that have failed so far

vars == <<now, currentUser, users, sessions, bookings, nextBookingId, req, scan,
          reminders, nextSessionId, reminderCalls, faults>>

(***************************************************************************)
(* Bounds of the model.                                                    *)
(***************************************************************************)
MaxBookings == 2        \* Booking documents ever inserted
MaxReminders == 2       \* reminder mails counted per booking
MaxFaults == 1          \* store operations that fail
MaxSessions == 3        \* Session documents ever inserted, the seeded one included
MaxGrants == 2          \* packages a client is granted on top of one another
MaxRecipients == 3      \* recipients of one sendBulkCustomMessage

(***************************************************************************)
(* Clock arithmetic.                                                       *)
(***************************************************************************)
SecondsPerDay == 24 * 60 * 60

NoDate == 0 - 1         \* an unset Date field (undefined / null)

StartOfDay(t) == t - (t % SecondsPerDay)

\* 23:59:59.999 of t's day.  Instants are whole seconds, so the value stands
\* for "the last whole second of the day, plus 999 ms".
EndOfDay(t) == StartOfDay(t) + SecondsPerDay - 1

Digits == <<"0", "1", "2", "3", "4", "5", "6", "7", "8", "9">>

IsDigit(c) == \E i \in 1..10 : Digits[i] = c

DigitValue(c) == (CHOOSE i \in 1..10 : Digits[i] = c) - 1

\* Index of the first ":" of s, Len(s) + 1 when there is none.
FirstColon(s) ==
    IF \E i \in 1..Len(s) : s[i] = ":"
    THEN CHOOSE i \in 1..Len(s) : s[i] = ":" /\ \A j \in 1..(i - 1) : s[j] # ":"
    ELSE Len(s) + 1

\* const [hours, minutes] = time.split(':')
SplitHours(s) == SubSeq(s, 1, FirstColon(s) - 1)

SplitMinutes(s) ==
    LET rest == SubSeq(s, FirstColon(s) + 1, Len(s))
    IN  SubSeq(rest, 1, FirstColon(rest) - 1)

RECURSIVE ParseDigits(_, _)
ParseDigits(s, acc) ==
    IF s = <<>> \/ ~IsDigit(Head(s)) THEN acc
    ELSE ParseDigits(Tail(s), 10 * acc + DigitValue(Head(s)))

\* parseInt on a string that starts with a digit: its leading digits, base 10.
ParseInt(s) == ParseDigits(s, 0)

SetHoursAdded(d, h, m) == d + (h * 60 * 60) + (m * 60)

\* Date.prototype.setHours(h, m, 0, 0): same calendar day, time of day replaced.
SetHours(d, h, m) == StartOfDay(d) + (h * 60 * 60) + (m * 60)

\* The session's start: its date with the time of day parsed from "HH:MM".
SessionStart(s) ==
    SetHours(s.date, ParseInt(SplitHours(s.time)), ParseInt(SplitMinutes(s.time)))

\* new Date(sessionDate.getTime() - (24 * 60 * 60 * 1000))
CancellationDeadline(s) == SessionStart(s) - (24 * 60 * 60)

(***************************************************************************)
(* Users.  The collection is fixed: two clients and one admin.             *)
(***************************************************************************)
UserIds == {"c1", "c2", "adm"}

Role(u) == IF u = "adm" THEN "admin" ELSE "client"

NoPackage == [activeSessions |-> 0, packageExpiry |-> NoDate]

(***************************************************************************)
(* Store queries.                                                          *)
(***************************************************************************)
\* Session.findById(id): a set with the document, empty when null
FindSession(id) == {s \in sessions : s.id = id}

\* Booking.findById(id)
FindBooking(id) == {b \in bookings : b.id = id}

\* Booking.find({ session: id, status: 'confirmed' })
ConfirmedBookings(id) == {b \in bookings : b.session = id /\ b.status = "confirmed"}

RECURSIVE SumGroupSize(_)
\* existingBookings.reduce((sum, b) => sum + b.groupSize, 0)
SumGroupSize(bs) ==
    IF bs = {} THEN 0
    ELSE LET b == CHOOSE x \in bs : TRUE
         IN  b.groupSize + SumGroupSize(bs \ {b})

\* The documents of a result list are visited in _id order.
FirstOf(docs) == CHOOSE d \in docs : \A e \in docs : d.id <= e.id

(***************************************************************************)
(* Requests.                                                               *)
(***************************************************************************)
\* op, sid, bid, groupSize, pkg, date, time, maxCapacity, cid: the request
\* (date, time and maxCapacity are those of POST /api/session, cid the :id of
\* /api/client/:id/...).  uid, session, doc, todo,
\* nowRead: the handler's locals.  attempts, failures: the mails the handler
\* has asked emailService for, and those that were not sent.  result: the
\* response.  actor and before are history, not program state: the user who
\* recipients, results: the arguments and the results array of a call of
\* emailService made on its own.
IdleReq ==
    [op |-> "none", pc |-> "idle", sid |-> 0, bid |-> 0, groupSize |-> 0,
     pkg |-> FALSE, uid |-> "none", session |-> {}, doc |-> {}, todo |-> {},
     result |-> "none", nowRead |-> 0, attempts |-> 0, failures |-> 0,
     date |-> NoDate, time |-> <<>>, maxCapacity |-> 0, cid |-> "none",
     recipients |-> <<>>, results |-> <<>>,
     actor |-> "none", before |-> [users |-> <<>>, bookings |-> {}, sessions |-> {}]]

\* History is kept where requests are served one at a time.
KeepsHistory == Cardinality(DOMAIN req) = 1

\* A request record as it is when the request arrives.
NewReq(op) ==
    IF KeepsHistory
    THEN [IdleReq EXCEPT !.op = op, !.actor = currentUser,
                         !.before = [users |-> users, bookings |-> bookings,
                                     sessions |-> sessions]]
    ELSE [IdleReq EXCEPT !.op = op]

\* The record of a request that has been answered: the locals are gone, and
\* without history only the operation and its answer remain.
Answered(q, code) ==
    IF KeepsHistory
    THEN [q EXCEPT !.pc = "done", !.result = code,
                   !.uid = "none", !.session = {}, !.doc = {}, !.todo = {}]
    ELSE [IdleReq EXCEPT !.pc = "done", !.op = q.op, !.result = code]

Respond(r, code) == req' = [req EXCEPT ![r] = Answered(@, code)]

\* A slot whose handler has answered ("done") serves the next request.
InFlight(r) == req[r].pc \notin {"idle", "done"}

\* A createBooking request that may still insert its Booking document.
InsertPending(r) ==
    req[r].pc \in {"cbFindSession", "cbFindBookings", "cbPreSave", "cbInsert"}

(***************************************************************************)
(* POST /api/booking                                                       *)
(***************************************************************************)
CapacityExceededIgnoringGroup(occupied, groupSize, maxCapacity) == occupied >= maxCapacity

CapacityExceededOffByOne(occupied, groupSize, maxCapacity) ==
    occupied + groupSize >= maxCapacity

\* if (currentBookings + parseInt(groupSize) > session.maxCapacity)
CapacityExceeded(occupied, groupSize, maxCapacity) == occupied + groupSize > maxCapacity

StoredCounter(session, found) == session.currentBookings

\* const currentBookings = existingBookings.reduce(...): the seats taken are
\* summed from the bookings found, the session document is not consulted.
CurrentBookings(session, found) == SumGroupSize(found)

\* BookingSchema: groupSize: { type: Number, min: 1, max: 4, required: true }
BookingValid(doc) == doc.groupSize >= 1 /\ doc.groupSize <= 4

\* Bound of the model: once MaxBookings documents have been inserted, only
\* requests that the handler is certain to refuse are still taken.
WouldInsert(sid, groupSize) ==
    \E s \in FindSession(sid) :
        /\ s.isActive
        /\ groupSize >= 1 /\ groupSize <= 4
        /\ ~CapacityExceeded(SumGroupSize(ConfirmedBookings(sid)), groupSize, s.maxCapacity)

AdminsMayBook(u) == FALSE

\* if (currentUser.role === 'admin') return res.status(403)
AdminsCannotBook(u) == Role(u) = "admin"

\* requireAuth, then the handler up to its first await.
CreateBookingStart(r, sid, groupSize, pkg) ==
    /\ ~InFlight(r)
    /\ \/ nextBookingId + Cardinality({q \in DOMAIN req : InsertPending(q)}) <= MaxBookings
       \/ (\A q \in DOMAIN req : ~InFlight(q)) /\ ~WouldInsert(sid, groupSize)
    /\ LET q == [NewReq("createBooking") EXCEPT !.sid = sid,
                                !.groupSize = groupSize, !.pkg = pkg]
       IN  req' = [req EXCEPT ![r] =
                IF currentUser = "none"
                THEN Answered(q, "redirect")
                ELSE IF AdminsCannotBook(currentUser)
                THEN Answered(q, "e403")
                ELSE [q EXCEPT !.pc = "cbFindSession"]]
    /\ UNCHANGED <<now, currentUser, users, sessions, bookings, nextBookingId, scan,
                   reminders, nextSessionId, reminderCalls, faults>>

\* Session.findById resolved: the availability check.
CreateBookingFindSession(r) ==
    /\ req[r].pc = "cbFindSession"
    /\ LET found == FindSession(req[r].sid)
       IN  IF found = {} \/ \E s \in found : ~s.isActive
           THEN Respond(r, "e400")
           ELSE req' = [req EXCEPT ![r].pc = "cbFindBookings", ![r].session = found]
    /\ UNCHANGED <<now, currentUser, users, sessions, bookings, nextBookingId, scan,
                   reminders, nextSessionId, reminderCalls, faults>>

\* Booking.find resolved: the capacity check, new Booking(...), and save()
\* up to the validation of the document.
CreateBookingFindBookings(r) ==
    /\ req[r].pc = "cbFindBookings"
    /\ LET session == CHOOSE s \in req[r].session : TRUE
           occupied == CurrentBookings(session, ConfirmedBookings(req[r].sid))
           doc == [id |-> 0, session |-> req[r].sid, client |-> currentUser,
                   groupSize |-> req[r].groupSize, status |-> "confirmed",
                   isPackageBooking |-> req[r].pkg,
                   cancellationDeadline |-> NoDate, canCancel |-> TRUE]
       IN  IF CapacityExceeded(occupied, req[r].groupSize, session.maxCapacity)
           THEN Respond(r, "e400")
           ELSE IF currentUser = "none" \/ ~BookingValid(doc)
           THEN Respond(r, "e400")
           ELSE req' = [req EXCEPT ![r].pc = "cbPreSave", ![r].doc = {doc}]
    /\ UNCHANGED <<now, currentUser, users, sessions, bookings, nextBookingId, scan,
                   reminders, nextSessionId, reminderCalls, faults>>

CanCancelDefault(t, deadline) == TRUE

\* this.canCancel = new Date() < cancellationDeadline
CanCancelAt(t, deadline) == t < deadline

\* BookingSchema.pre('save'): the session is loaded again and the deadline set.
CreateBookingPreSave(r) ==
    /\ req[r].pc = "cbPreSave"
    /\ LET found == FindSession(req[r].sid)
           doc == CHOOSE d \in req[r].doc : TRUE
       IN  req' = [req EXCEPT ![r].pc = "cbInsert", ![r].doc =
                IF found = {} THEN {doc}
                ELSE LET deadline == CancellationDeadline(CHOOSE s \in found : TRUE)
                     IN  {[doc EXCEPT !.cancellationDeadline = deadline,
                                      !.canCancel = CanCancelAt(now, deadline)]}]
    /\ UNCHANGED <<now, currentUser, users, sessions, bookings, nextBookingId, scan,
                   reminders, nextSessionId, reminderCalls, faults>>

\* The insert of booking.save() took effect.  For a package booking the
\* update of currentUser._id is issued, with moment() read here; with nobody
\* logged in any more the read of currentUser._id throws and the outer catch
\* answers 400.
CreateBookingInsert(r) ==
    /\ req[r].pc = "cbInsert"
    /\ LET doc == [(CHOOSE d \in req[r].doc : TRUE) EXCEPT !.id = nextBookingId]
       IN  /\ bookings' = bookings \cup {doc}
           /\ nextBookingId' = nextBookingId + 1
           /\ req' = [req EXCEPT ![r] =
                IF ~req[r].pkg THEN [@ EXCEPT !.doc = {doc}, !.pc = "cbMailClient"]
                ELSE IF currentUser = "none"
                THEN Answered(@, "e400")
                ELSE [@ EXCEPT !.doc = {doc}, !.pc = "cbUpdateUser",
                               !.uid = currentUser, !.nowRead = now]]
    /\ UNCHANGED <<now, currentUser, users, sessions, scan, reminders, nextSessionId,
                   reminderCalls, faults>>

PackageBookingUpdateNoExpiry(u, expiry) == [u EXCEPT !.activeSessions = @ + 1]

PackageBookingUpdateKeepExpiry(u, expiry) ==
    [u EXCEPT !.activeSessions = @ + 1,
              !.packageExpiry = IF @ = NoDate THEN expiry ELSE @]

\* { $inc: { activeSessions: 1 }, $set: { packageExpiry: ... } }
PackageBookingUpdate(u, expiry) ==
    [u EXCEPT !.activeSessions = @ + 1, !.packageExpiry = expiry]

\* moment().add(session.packageDuration, 'days').toDate()
PackageExpiry(t, session) == t + (session.packageDuration * SecondsPerDay)

\* User.findByIdAndUpdate(currentUser._id, ...) took effect.
CreateBookingUpdateUser(r) ==
    /\ req[r].pc = "cbUpdateUser"
    /\ LET session == CHOOSE s \in req[r].session : TRUE
       IN  users' = [users EXCEPT ![req[r].uid] =
                        PackageBookingUpdate(@, PackageExpiry(req[r].nowRead, session))]
    /\ req' = [req EXCEPT ![r].pc = "cbMailClient"]
    /\ UNCHANGED <<now, currentUser, sessions, bookings, nextBookingId, scan, reminders,
                   nextSessionId, reminderCalls, faults>>

MailFailureRethrown(sent) == IF sent THEN "none" ELSE "e400"

\* What a handler answers because a mail was not sent: nothing.  sendEmail
\* returns { success: false } instead of throwing, and the handler's own
\* try/catch around the call only logs; the handler goes on.
MailFailureAnswer(sent) == "none"

\* sendBookingConfirmation: the client's mail, sent or failed.
CreateBookingMailClient(r) ==
    /\ req[r].pc = "cbMailClient"
    /\ \E sent \in BOOLEAN :
          LET q == [req[r] EXCEPT !.attempts = @ + 1,
                                  !.failures = IF sent THEN @ ELSE @ + 1]
          IN  req' = [req EXCEPT ![r] =
                        IF MailFailureAnswer(sent) # "none"
                        THEN Answered(q, MailFailureAnswer(sent))
                        ELSE [q EXCEPT !.pc = "cbMailTrainer"]]
    /\ UNCHANGED <<now, currentUser, users, sessions, bookings, nextBookingId, scan,
                   reminders, nextSessionId, reminderCalls, faults>>

\* sendBookingConfirmation: the trainer's mail, then res.json({ success: true }).
CreateBookingMailTrainer(r) ==
    /\ req[r].pc = "cbMailTrainer"
    /\ \E sent \in BOOLEAN :
          LET q == [req[r] EXCEPT !.attempts = @ + 1,
                                  !.failures = IF sent THEN @ ELSE @ + 1]
          IN  req' = [req EXCEPT ![r] =
                        IF MailFailureAnswer(sent) # "none"
                        THEN Answered(q, MailFailureAnswer(sent))
                        ELSE Answered(q, "ok")]
    /\ UNCHANGED <<now, currentUser, users, sessions, bookings, nextBookingId, scan,
                   reminders, nextSessionId, reminderCalls, faults>>

CreateBookingStep(r) ==
    \/ CreateBookingFindSession(r)
    \/ CreateBookingFindBookings(r)
    \/ CreateBookingPreSave(r)
    \/ CreateBookingInsert(r)
    \/ CreateBookingUpdateUser(r)
    \/ CreateBookingMailClient(r)
    \/ CreateBookingMailTrainer(r)

(***************************************************************************)
(* DELETE /api/booking/:id                                                 *)
(***************************************************************************)
PastSessionStart(t, deadline) == deadline # NoDate /\ t > deadline + (24 * 60 * 60)

\* if (now > cancellationDeadline); a comparison with an invalid Date (the
\* field was never set) is false.
PastDeadline(t, deadline) == deadline # NoDate /\ t > deadline

\* requireAuth, then the handler up to its first await.
CancelBookingStart(r, bid) ==
    /\ ~InFlight(r)
    /\ LET q == [NewReq("cancelBooking") EXCEPT !.bid = bid]
       IN  req' = [req EXCEPT ![r] =
                IF currentUser = "none"
                THEN Answered(q, "redirect")
                ELSE [q EXCEPT !.pc = "xbFind"]]
    /\ UNCHANGED <<now, currentUser, users, sessions, bookings, nextBookingId, scan,
                   reminders, nextSessionId, reminderCalls, faults>>

NotAuthorizedInverted(u, booking) == Role(u) # "admin" /\ booking.client = u

\* if (currentUser.role !== 'admin' &&
\*     booking.client._id.toString() !== currentUser._id.toString())
NotAuthorized(u, booking) == Role(u) # "admin" /\ booking.client # u

\* Booking.findById resolved: not-found, ownership and the 24-hour policy.
\* A read of currentUser.role with nobody logged in throws: 400.
CancelBookingFind(r) ==
    /\ req[r].pc = "xbFind"
    /\ LET found == FindBooking(req[r].bid)
       IN  IF found = {} THEN Respond(r, "e404")
           ELSE IF currentUser = "none" THEN Respond(r, "e400")
           ELSE LET booking == CHOOSE b \in found : TRUE
                IN  IF NotAuthorized(currentUser, booking)
                    THEN Respond(r, "e403")
                    ELSE IF Role(currentUser) # "admin"
                            /\ PastDeadline(now, booking.cancellationDeadline)
                    THEN req' = [req EXCEPT ![r] =
                                    Answered([@ EXCEPT !.nowRead = now], "e400")]
                    ELSE req' = [req EXCEPT ![r].doc = found, ![r].nowRead = now,
                                            ![r].pc = IF booking.isPackageBooking
                                                      THEN "xbUpdateUser" ELSE "xbMail"]
    /\ UNCHANGED <<now, currentUser, users, sessions, bookings, nextBookingId, scan,
                   reminders, nextSessionId, reminderCalls, faults>>

PackageCancelUpdateFloored(u) ==
    [u EXCEPT !.activeSessions = IF @ > 0 THEN @ - 1 ELSE 0]

\* { $inc: { activeSessions: -1 } }
PackageCancelUpdate(u) == [u EXCEPT !.activeSessions = @ - 1]

\* User.findByIdAndUpdate(booking.client._id, ...) took effect.
CancelBookingUpdateUser(r) ==
    /\ req[r].pc = "xbUpdateUser"
    /\ LET booking == CHOOSE b \in req[r].doc : TRUE
       IN  users' = [users EXCEPT ![booking.client] = PackageCancelUpdate(@)]
    /\ req' = [req EXCEPT ![r].pc = "xbMail"]
    /\ UNCHANGED <<now, currentUser, sessions, bookings, nextBookingId, scan, reminders,
                   nextSessionId, reminderCalls, faults>>

\* sendCancellationNotification, sent or failed; the delete is issued.
CancelBookingMail(r) ==
    /\ req[r].pc = "xbMail"
    /\ \E sent \in BOOLEAN :
          LET q == [req[r] EXCEPT !.attempts = @ + 1,
                                  !.failures = IF sent THEN @ ELSE @ + 1]
          IN  req' = [req EXCEPT ![r] =
                        IF MailFailureAnswer(sent) # "none"
                        THEN Answered(q, MailFailureAnswer(sent))
                        ELSE [q EXCEPT !.pc = "xbDelete"]]
    /\ UNCHANGED <<now, currentUser, users, sessions, bookings, nextBookingId, scan,
                   reminders, nextSessionId, reminderCalls, faults>>

MarkedCancelled(bs, bid) ==
    {IF b.id = bid THEN [b EXCEPT !.status = "cancelled"] ELSE b : b \in bs}

\* Booking.findByIdAndDelete(id): the record is removed from the collection.
FindByIdAndDelete(bs, bid) == {b \in bs : b.id # bid}

\* Booking.findByIdAndDelete took effect; res.json({ success: true }).
CancelBookingDelete(r) ==
    /\ req[r].pc = "xbDelete"
    /\ bookings' = FindByIdAndDelete(bookings, req[r].bid)
    /\ Respond(r, "ok")
    /\ UNCHANGED <<now, currentUser, users, sessions, nextBookingId, scan, reminders,
                   nextSessionId, reminderCalls, faults>>

CancelBookingStep(r) ==
    \/ CancelBookingFind(r)
    \/ CancelBookingUpdateUser(r)
    \/ CancelBookingMail(r)
    \/ CancelBookingDelete(r)

(***************************************************************************)
(* DELETE /api/session/:id                                                 *)
(***************************************************************************)
\* requireAdmin, then the handler up to its first await.
DeleteSessionStart(r, sid) ==
    /\ ~InFlight(r)
    /\ LET q == [NewReq("deleteSession") EXCEPT !.sid = sid]
       IN  req' = [req EXCEPT ![r] =
                IF currentUser = "none" \/ Role(currentUser) # "admin"
                THEN Answered(q, "redirect")
                ELSE [q EXCEPT !.pc = "dsFind"]]
    /\ UNCHANGED <<now, currentUser, users, sessions, bookings, nextBookingId, scan,
                   reminders, nextSessionId, reminderCalls, faults>>

NotifyListFirstOnly(sid) ==
    LET found == ConfirmedBookings(sid)
    IN  IF found = {} THEN {} ELSE {FirstOf(found)}

\* The bookings whose clients the handler notifies.
NotifyList(sid) == ConfirmedBookings(sid)

\* Booking.find resolved: the list of confirmed bookings to notify; doc keeps
\* the list as it was read.
DeleteSessionFind(r) ==
    /\ req[r].pc = "dsFind"
    /\ LET found == NotifyList(req[r].sid)
       IN  req' = [req EXCEPT ![r].todo = found, ![r].doc = found,
                              ![r].pc = IF found = {} THEN "dsDeleteBookings" ELSE "dsMail"]
    /\ UNCHANGED <<now, currentUser, users, sessions, bookings, nextBookingId, scan,
                   reminders, nextSessionId, reminderCalls, faults>>

\* One turn of the loop: sendCancellationNotification, sent or failed.
DeleteSessionMail(r) ==
    /\ req[r].pc = "dsMail"
    /\ LET booking == FirstOf(req[r].todo)
           left == req[r].todo \ {booking}
       IN  \E sent \in BOOLEAN :
              req' = [req EXCEPT ![r].todo = left,
                                 ![r].attempts = @ + 1,
                                 ![r].failures = IF sent THEN @ ELSE @ + 1,
                                 ![r].pc = IF left = {} THEN "dsDeleteBookings" ELSE "dsMail"]
    /\ UNCHANGED <<now, currentUser, users, sessions, bookings, nextBookingId, scan,
                   reminders, nextSessionId, reminderCalls, faults>>

DeleteManyUnfiltered(bs, sid) == {}

\* Booking.deleteMany({ session: id }): what is left of the collection.
DeleteMany(bs, sid) == {b \in bs : b.session # sid}

\* Booking.deleteMany({ session: id }) took effect.
DeleteSessionDeleteBookings(r) ==
    /\ req[r].pc = "dsDeleteBookings"
    /\ bookings' = DeleteMany(bookings, req[r].sid)
    /\ req' = [req EXCEPT ![r].pc = "dsDeleteSession"]
    /\ UNCHANGED <<now, currentUser, users, sessions, nextBookingId, scan, reminders,
                   nextSessionId, reminderCalls, faults>>

\* Session.findByIdAndDelete took effect; res.json({ success: true }).
DeleteSessionDeleteSession(r) ==
    /\ req[r].pc = "dsDeleteSession"
    /\ sessions' = {s \in sessions : s.id # req[r].sid}
    /\ Respond(r, "ok")
    /\ UNCHANGED <<now, currentUser, users, bookings, nextBookingId, scan, reminders,
                   nextSessionId, reminderCalls, faults>>

DeleteSessionStep(r) ==
    \/ DeleteSessionFind(r)
    \/ DeleteSessionMail(r)
    \/ DeleteSessionDeleteBookings(r)
    \/ DeleteSessionDeleteSession(r)

(***************************************************************************)
(* emailService.js: sendEmail, sendBookingConfirmation and                 *)
(* sendBulkCustomMessage, called on their own.  A call returns ("returned")*)
(* or rejects ("threw"); results holds one record per sendEmail that has   *)
(* returned, in the order of the calls.  Addresses are user ids.           *)
(***************************************************************************)
SendEmailRethrows(delivered) == [threw |-> ~delivered, success |-> delivered]

\* sendEmail: transporter.sendMail resolved ({ success: true, messageId }) or
\* rejected, and then the catch returns { success: false, error }.
SendEmail(delivered) == [threw |-> FALSE, success |-> delivered]

\* The sequences of at most n elements of S.
SeqUpTo(S, n) == UNION {[1..k -> S] : k \in 0..n}

\* One sendEmail(to, template) awaited by a service function: its result is
\* pushed, or the rejection ends the function.
AwaitSendEmail(q, to, delivered, last) ==
    LET result == SendEmail(delivered)
        pushed == [q EXCEPT !.results = Append(@, [recipient |-> to,
                                                   success |-> result.success]),
                            !.attempts = @ + 1,
                            !.failures = IF result.success THEN @ ELSE @ + 1]
    IN  IF result.threw THEN Answered([q EXCEPT !.attempts = @ + 1], "threw")
        ELSE IF last THEN Answered(pushed, "returned")
        ELSE pushed

\* sendBookingConfirmation(booking, session, client, trainer) is called.
SendBookingConfirmationStart(r, client, trainer) ==
    /\ ~InFlight(r)
    /\ req' = [req EXCEPT ![r] =
                 [NewReq("sendBookingConfirmation") EXCEPT
                     !.recipients = <<client, trainer>>, !.pc = "bcClient"]]
    /\ UNCHANGED <<now, currentUser, users, sessions, bookings, nextBookingId, scan,
                   reminders, nextSessionId, reminderCalls, faults>>

\* const clientResult = await sendEmail(client.email, template)
SendBookingConfirmationClient(r) ==
    /\ req[r].pc = "bcClient"
    /\ \E delivered \in BOOLEAN :
          req' = [req EXCEPT ![r] =
                    LET q == AwaitSendEmail(@, @.recipients[1], delivered, FALSE)
                    IN  IF q.pc = "done" THEN q ELSE [q EXCEPT !.pc = "bcTrainer"]]
    /\ UNCHANGED <<now, currentUser, users, sessions, bookings, nextBookingId, scan,
                   reminders, nextSessionId, reminderCalls, faults>>

\* const trainerResult = await sendEmail(trainer.email, trainerTemplate);
\* return { clientResult, trainerResult }
SendBookingConfirmationTrainer(r) ==
    /\ req[r].pc = "bcTrainer"
    /\ \E delivered \in BOOLEAN :
          req' = [req EXCEPT ![r] =
                    AwaitSendEmail(@, @.recipients[2], delivered, TRUE)]
    /\ UNCHANGED <<now, currentUser, users, sessions, bookings, nextBookingId, scan,
                   reminders, nextSessionId, reminderCalls, faults>>

\* sendBulkCustomMessage(recipients, subject, message) is called: results = [],
\* and with no recipient the loop is not entered.
SendBulkCustomMessageStart(r, recipients) ==
    /\ ~InFlight(r)
    /\ LET q == [NewReq("sendBulkCustomMessage") EXCEPT !.recipients = recipients]
       IN  req' = [req EXCEPT ![r] =
                     IF recipients = <<>> THEN Answered(q, "returned")
                     ELSE [q EXCEPT !.pc = "bulkLoop"]]
    /\ UNCHANGED <<now, currentUser, users, sessions, bookings, nextBookingId, scan,
                   reminders, nextSessionId, reminderCalls, faults>>

\* One turn of the loop: await this.sendCustomMessage(recipient, ...), which
\* returns what sendEmail returns; results.push({ recipient, result }).
SendBulkCustomMessageTurn(r) ==
    /\ req[r].pc = "bulkLoop"
    /\ \E delivered \in BOOLEAN :
          LET i == Len(req[r].results) + 1
          IN  req' = [req EXCEPT ![r] =
                        AwaitSendEmail(@, @.recipients[i], delivered,
                                       i = Len(@.recipients))]
    /\ UNCHANGED <<now, currentUser, users, sessions, bookings, nextBookingId, scan,
                   reminders, nextSessionId, reminderCalls, faults>>

(***************************************************************************)
(* POST /api/session                                                       *)
(***************************************************************************)
\* Session.findOne({ date: new Date(date), time })
FindSessionAt(date, time) == {s \in sessions : s.date = date /\ s.time = time}

\* SessionSchema: maxCapacity: { type: Number, min: 1, max: 4, required: true }
SessionValid(doc) == doc.maxCapacity >= 1 /\ doc.maxCapacity <= 4

\* requireAdmin, then the handler up to its first await; every required
\* field of the body is present.
CreateSessionStart(r, date, time, maxCapacity) ==
    /\ ~InFlight(r)
    /\ nextSessionId <= MaxSessions
    /\ LET q == [NewReq("createSession") EXCEPT !.date = date, !.time = time,
                                               !.maxCapacity = maxCapacity]
       IN  req' = [req EXCEPT ![r] =
                IF currentUser = "none" \/ Role(currentUser) # "admin"
                THEN Answered(q, "redirect")
                ELSE [q EXCEPT !.pc = "csFindOne"]]
    /\ UNCHANGED <<now, currentUser, users, sessions, bookings, nextBookingId, scan,
                   reminders, nextSessionId, reminderCalls, faults>>

\* Session.findOne resolved: the duplicate check, new Session(...) with
\* createdBy: currentUser._id, and save() up to the validation.
CreateSessionFindOne(r) ==
    /\ req[r].pc = "csFindOne"
    /\ LET doc == [id |-> 0, date |-> req[r].date, time |-> req[r].time,
                   maxCapacity |-> req[r].maxCapacity, currentBookings |-> 0,
                   isActive |-> TRUE, packageDuration |-> 90]
       IN  IF FindSessionAt(req[r].date, req[r].time) # {}
           THEN Respond(r, "duplicate")
           ELSE IF currentUser = "none" \/ ~SessionValid(doc)
           THEN Respond(r, "e400")
           ELSE req' = [req EXCEPT ![r].pc = "csSave", ![r].session = {doc}]
    /\ UNCHANGED <<now, currentUser, users, sessions, bookings, nextBookingId, scan,
                   reminders, nextSessionId, reminderCalls, faults>>

\* The insert of session.save() took effect; res.json({ success: true }).
CreateSessionSave(r) ==
    /\ req[r].pc = "csSave"
    /\ sessions' = sessions \cup
                        {[(CHOOSE d \in req[r].session : TRUE) EXCEPT !.id = nextSessionId]}
    /\ nextSessionId' = nextSessionId + 1
    /\ Respond(r, "ok")
    /\ UNCHANGED <<now, currentUser, users, bookings, nextBookingId, scan,
                   reminders, reminderCalls, faults>>

CreateSessionStep(r) ==
    \/ CreateSessionFindOne(r)
    \/ CreateSessionSave(r)

(***************************************************************************)
(* POST /api/client/:id/add-package and /api/client/:id/reset-package      *)
(***************************************************************************)
\* User.findById(id): a set with the user's id, empty when null
FindUser(id) == {u \in DOMAIN users : u = id}

\* requireAdmin, then the handler up to its first await.  (Bound of the
\* model: a client holding 8 * MaxGrants sessions or more is granted no
\* further package.)
AddPackageStart(r, cid) ==
    /\ ~InFlight(r)
    /\ \A u \in FindUser(cid) : users[u].activeSessions < 8 * MaxGrants
    /\ LET q == [NewReq("addPackage") EXCEPT !.cid = cid]
       IN  req' = [req EXCEPT ![r] =
                IF currentUser = "none" \/ Role(currentUser) # "admin"
                THEN Answered(q, "redirect")
                ELSE [q EXCEPT !.pc = "apFind"]]
    /\ UNCHANGED <<now, currentUser, users, sessions, bookings, nextBookingId, scan,
                   reminders, nextSessionId, reminderCalls, faults>>

\* User.findById resolved: if (!client || client.role !== 'client') 404;
\* otherwise the update is issued, with moment() read here.
AddPackageFind(r) ==
    /\ req[r].pc = "apFind"
    /\ IF \E u \in FindUser(req[r].cid) : Role(u) = "client"
       THEN req' = [req EXCEPT ![r].pc = "apUpdate", ![r].nowRead = now]
       ELSE Respond(r, "e404")
    /\ UNCHANGED <<now, currentUser, users, sessions, bookings, nextBookingId, scan,
                   reminders, nextSessionId, reminderCalls, faults>>

GrantPackageUpdateSet(u, expiry) ==
    [u EXCEPT !.activeSessions = 8, !.packageExpiry = expiry]

\* { $inc: { activeSessions: 8 }, $set: { packageExpiry: ... } }
GrantPackageUpdate(u, expiry) ==
    [u EXCEPT !.activeSessions = @ + 8, !.packageExpiry = expiry]

\* moment().add(90, 'days').toDate()
GrantExpiry(t) == t + (90 * SecondsPerDay)

\* User.findByIdAndUpdate took effect; res.json({ success: true, client }).
AddPackageUpdate(r) ==
    /\ req[r].pc = "apUpdate"
    /\ users' = [users EXCEPT ![req[r].cid] =
                    GrantPackageUpdate(@, GrantExpiry(req[r].nowRead))]
    /\ Respond(r, "ok")
    /\ UNCHANGED <<now, currentUser, sessions, bookings, nextBookingId, scan, reminders,
                   nextSessionId, reminderCalls, faults>>

AddPackageStep(r) ==
    \/ AddPackageFind(r)
    \/ AddPackageUpdate(r)

\* requireAdmin, then the handler up to its first await.
ResetPackageStart(r, cid) ==
    /\ ~InFlight(r)
    /\ LET q == [NewReq("resetPackage") EXCEPT !.cid = cid]
       IN  req' = [req EXCEPT ![r] =
                IF currentUser = "none" \/ Role(currentUser) # "admin"
                THEN Answered(q, "redirect")
                ELSE [q EXCEPT !.pc = "rpUpdate"]]
    /\ UNCHANGED <<now, currentUser, users, sessions, bookings, nextBookingId, scan,
                   reminders, nextSessionId, reminderCalls, faults>>

\* { $set: { activeSessions: 0, packageExpiry: null } }
ResetPackageUpdate(u) == [u EXCEPT !.activeSessions = 0, !.packageExpiry = NoDate]

\* User.findByIdAndUpdate resolved, for whatever user the id names (the
\* handler does not read the role): if (!updatedClient) 404.
ResetPackageApply(r) ==
    /\ req[r].pc = "rpUpdate"
    /\ IF FindUser(req[r].cid) = {}
       THEN Respond(r, "e404") /\ UNCHANGED users
       ELSE /\ users' = [users EXCEPT ![req[r].cid] = ResetPackageUpdate(@)]
            /\ Respond(r, "ok")
    /\ UNCHANGED <<now, currentUser, sessions, bookings, nextBookingId, scan, reminders,
                   nextSessionId, reminderCalls, faults>>

(***************************************************************************)
(* A store write that fails.                                               *)
(***************************************************************************)
\* The handler positions at which a write to the store is awaited:
\* booking.save(), the two User.findByIdAndUpdate, Booking.findByIdAndDelete.
AwaitsWrite(pc) == pc \in {"cbInsert", "cbUpdateUser", "xbUpdateUser", "xbDelete"}

\* The awaited write rejects and changes nothing; the handler's outer catch
\* answers res.status(400).json({ error }).
StoreWriteFails(r) ==
    /\ AwaitsWrite(req[r].pc)
    /\ faults < MaxFaults
    /\ faults' = faults + 1
    /\ Respond(r, "e400")
    /\ UNCHANGED <<now, currentUser, users, sessions, bookings, nextBookingId, scan,
                   reminders, nextSessionId, reminderCalls>>

(***************************************************************************)
(* POST /login, GET /logout, and the clock.                                *)
(***************************************************************************)
\* currentUser = user
Login(u) ==
    /\ currentUser # u
    /\ currentUser' = u
    /\ UNCHANGED <<now, users, sessions, bookings, nextBookingId, req, scan, reminders,
                   nextSessionId, reminderCalls, faults>>

\* currentUser = null
Logout ==
    /\ currentUser # "none"
    /\ currentUser' = "none"
    /\ UNCHANGED <<now, users, sessions, bookings, nextBookingId, req, scan, reminders,
                   nextSessionId, reminderCalls, faults>>

\* Time passes, to one of the instants the specification observes.
Tick(instants) ==
    /\ \E t \in instants : t > now /\ now' = t
    /\ UNCHANGED <<currentUser, users, sessions, bookings, nextBookingId, req, scan,
                   reminders, nextSessionId, reminderCalls, faults>>

(***************************************************************************)
(* Reminder scheduler (reminderScheduler.js).                              *)
(***************************************************************************)
\* startedAt, startWindow, endWindow, todo, session, bookingsTodo: the locals
\* of one run of sendSessionReminders (startedAt is the moment() it read).
\* The rest is history: dispatched, the sessions this run looked up bookings
\* for; lookupFailed, those whose lookup was rejected; attempted, the booking
\* ids it called sendSessionReminder for, in order; failed, those of them
\* whose mail was not sent; hungAt, the start instants of the earlier runs
\* that are still waiting for a mail; stale, the ids it called
\* sendSessionReminder for when the store no longer held them as a confirmed
\* booking of an active session.  answer is what POST /api/test-reminders
\* has answered for the run it started: "pending" until it does, "none" for
\* a run that cron started.
IdleScan ==
    [pc |-> "idle", startedAt |-> NoDate, startWindow |-> 0, endWindow |-> 0,
     todo |-> {}, session |-> {}, bookingsTodo |-> {}, dispatched |-> {},
     lookupFailed |-> {}, attempted |-> <<>>, failed |-> {}, hungAt |-> {},
     stale |-> {}, answer |-> "none"]

\* twoHoursFromNow.clone().subtract(7, 'minutes')
WindowStart(t) == t + (2 * 60 * 60) - (7 * 60)

\* twoHoursFromNow.clone().add(8, 'minutes')
WindowEnd(t) == t + (2 * 60 * 60) + (8 * 60)

\* The window as computed, both ends excluded (the last second inside it is
\* the one before its end).
WindowAsComputed(t) == [start |-> WindowStart(t), end |-> WindowEnd(t) - 1]

\* startWindow and endWindow as building the query leaves them:
\* startWindow.startOf('day') and endWindow.endOf('day') change the moment
\* they are called on.
WindowAfterQuery(t) ==
    [start |-> StartOfDay(WindowStart(t)), end |-> EndOfDay(WindowEnd(t))]

\* The run up to its first await: the window and the query.
ScanBegin(k) ==
    scan' = [scan EXCEPT ![k] =
                [IdleScan EXCEPT !.pc = "srFindSessions", !.startedAt = now,
                                 !.hungAt = IF scan[k].pc = "srHung"
                                            THEN scan[k].hungAt \cup {scan[k].startedAt}
                                            ELSE scan[k].hungAt,
                                 !.answer = IF k = "manual" THEN "pending" ELSE "none",
                                 !.startWindow = WindowAfterQuery(now).start,
                                 !.endWindow = WindowAfterQuery(now).end]]

CanStartNoOverlap(pc) == pc = "idle"

\* A run starts whether or not an earlier call of the callback is still
\* waiting for a mail that never returns: the callback is called at every
\* tick and each call is a run of its own.  (A run that does proceed has
\* ended when the next one starts.)
CanStart(pc) == pc \in {"idle", "srHung"}

\* cron.schedule('*/15 * * * *', ...): once at every quarter of an hour.
CronFire ==
    /\ now % (15 * 60) = 0
    /\ CanStart(scan["cron"].pc) /\ scan["cron"].startedAt # now
    /\ ScanBegin("cron")
    /\ UNCHANGED <<now, currentUser, users, sessions, bookings, nextBookingId, req,
                   reminders, nextSessionId, reminderCalls, faults>>

\* POST /api/test-reminders: requireAdmin, then sendRemindersNow().  The
\* next request is taken once the previous one has been answered, or waits
\* for a mail for ever.
ManualTrigger ==
    /\ currentUser # "none" /\ Role(currentUser) = "admin"
    /\ CanStart(scan["manual"].pc)
    /\ scan["manual"].answer # "pending" \/ scan["manual"].pc = "srHung"
    /\ ScanBegin("manual")
    /\ UNCHANGED <<now, currentUser, users, sessions, bookings, nextBookingId, req,
                   reminders, nextSessionId, reminderCalls, faults>>

\* Session.find({ date: { $gte: ..., $lte: ... }, isActive: true }) resolved;
\* the bounds of the query are what startOf('day') and endOf('day') returned.
ScanFindSessions(k) ==
    /\ scan[k].pc = "srFindSessions"
    /\ LET upcoming == {s \in sessions :
                          /\ s.date >= StartOfDay(scan[k].startWindow)
                          /\ s.date <= EndOfDay(scan[k].endWindow)
                          /\ s.isActive}
       IN  scan' = [scan EXCEPT ![k].todo = upcoming,
                                ![k].pc = IF upcoming = {} THEN "idle" ELSE "srLoop"]
    /\ UNCHANGED <<now, currentUser, users, sessions, bookings, nextBookingId, req,
                   reminders, nextSessionId, reminderCalls, faults>>

\* sessionDateTime.isBetween(startWindow, endWindow): both ends excluded.
\* endWindow is a 23:59:59.999, which a whole second is before iff it is
\* not after the day's last second.
IsBetween(t, startWindow, endWindow) == startWindow < t /\ t <= endWindow

\* The next session of the list: is it inside the window?
ScanNextSession(k) ==
    /\ scan[k].pc = "srLoop"
    /\ LET session == FirstOf(scan[k].todo)
           left == scan[k].todo \ {session}
       IN  scan' = [scan EXCEPT ![k] =
                IF IsBetween(SessionStart(session), scan[k].startWindow, scan[k].endWindow)
                THEN [@ EXCEPT !.todo = left, !.session = {session},
                               !.dispatched = @ \cup {session.id},
                               !.pc = "srFindBookings"]
                ELSE [@ EXCEPT !.todo = left,
                               !.pc = IF left = {} THEN "idle" ELSE "srLoop"]]
    /\ UNCHANGED <<now, currentUser, users, sessions, bookings, nextBookingId, req,
                   reminders, nextSessionId, reminderCalls, faults>>

\* Booking.find({ session, status: 'confirmed' }) resolved.
ScanFindBookings(k) ==
    /\ scan[k].pc = "srFindBookings"
    /\ LET found == ConfirmedBookings((CHOOSE s \in scan[k].session : TRUE).id)
       IN  scan' = [scan EXCEPT ![k].bookingsTodo = found,
                                ![k].pc = IF found # {} THEN "srSend"
                                          ELSE IF scan[k].todo = {} THEN "idle"
                                          ELSE "srLoop"]
    /\ UNCHANGED <<now, currentUser, users, sessions, bookings, nextBookingId, req,
                   reminders, nextSessionId, reminderCalls, faults>>

QueryFailureRethrown == "srThrown"

\* Where a run is after an awaited query rejected: the try of
\* sendSessionReminders spans the whole body and its catch only logs, so
\* the function returns normally and the run has ended.
AfterQueryFailure == "idle"

\* Session.find rejected: the outer catch logs and the run ends.
ScanFindSessionsFails(k) ==
    /\ scan[k].pc = "srFindSessions"
    /\ faults < MaxFaults
    /\ faults' = faults + 1
    /\ scan' = [scan EXCEPT ![k].pc = AfterQueryFailure]
    /\ UNCHANGED <<now, currentUser, users, sessions, bookings, nextBookingId, req,
                   reminders, nextSessionId, reminderCalls>>

\* Booking.find rejected: the outer catch of sendSessionReminders logs and
\* the run ends, the sessions still in todo unvisited.
ScanFindBookingsFails(k) ==
    /\ scan[k].pc = "srFindBookings"
    /\ faults < MaxFaults
    /\ faults' = faults + 1
    /\ scan' = [scan EXCEPT ![k].pc = AfterQueryFailure,
                            ![k].lookupFailed =
                                @ \cup {(CHOOSE s \in scan[k].session : TRUE).id}]
    /\ UNCHANGED <<now, currentUser, users, sessions, bookings, nextBookingId, req,
                   reminders, nextSessionId, reminderCalls>>

ReminderFailureAborts(sent, next) == IF sent THEN next ELSE "idle"

\* Where the run goes on after a reminder: at the next booking or session,
\* sent or not (the try/catch inside the loop only logs).
AfterReminder(sent, next) == next

\* Whether the store holds a confirmed booking of this id whose session is
\* stored and active.
Remindable(id) ==
    \E b \in bookings :
        /\ b.id = id
        /\ b.status = "confirmed"
        /\ \E s \in sessions : s.id = b.session /\ s.isActive

\* One more reminder mail for a booking (counted up to MaxReminders).
Delivered(count) == IF count < MaxReminders THEN count + 1 ELSE count

\* emailService.sendSessionReminder for the next booking, sent or failed.
ScanSend(k) ==
    /\ scan[k].pc = "srSend"
    /\ LET booking == FirstOf(scan[k].bookingsTodo)
           left == scan[k].bookingsTodo \ {booking}
           next == IF left # {} THEN "srSend"
                   ELSE IF scan[k].todo = {} THEN "idle"
                   ELSE "srLoop"
       IN  /\ reminderCalls' = [reminderCalls EXCEPT ![booking.id] = Delivered(@)]
           /\ \E sent \in BOOLEAN :
                 /\ scan' = [scan EXCEPT
                        ![k].bookingsTodo = left,
                        ![k].attempted = Append(@, booking.id),
                        ![k].failed = IF sent THEN @ ELSE @ \cup {booking.id},
                        ![k].stale = IF Remindable(booking.id) THEN @
                                     ELSE @ \cup {booking.id},
                        ![k].pc = AfterReminder(sent, next)]
                 /\ reminders' = IF sent
                                 THEN [reminders EXCEPT ![booking.id] = Delivered(@)]
                                 ELSE reminders
    /\ UNCHANGED <<now, currentUser, users, sessions, bookings, nextBookingId, req,
                   nextSessionId, faults>>

\* emailService.sendSessionReminder never returns: the run waits for it for
\* ever.
ScanSendHangs(k) ==
    /\ scan[k].pc = "srSend"
    /\ scan' = [scan EXCEPT ![k].pc = "srHung"]
    /\ UNCHANGED <<now, currentUser, users, sessions, bookings, nextBookingId, req,
                   reminders, nextSessionId, reminderCalls, faults>>

\* await reminderScheduler.sendRemindersNow() has settled: res.json({
\* success: true }) when it returned, res.status(500) when it threw.
ManualRespond ==
    /\ scan["manual"].pc \in {"idle", "srThrown"}
    /\ scan["manual"].answer = "pending"
    /\ scan' = [scan EXCEPT !["manual"].answer =
                                IF scan["manual"].pc = "srThrown" THEN "e500" ELSE "ok",
                            !["manual"].pc = "idle"]
    /\ UNCHANGED <<now, currentUser, users, sessions, bookings, nextBookingId, req,
                   reminders, nextSessionId, reminderCalls, faults>>

ScanStep(k) ==
    \/ ScanFindSessions(k)
    \/ ScanNextSession(k)
    \/ ScanFindBookings(k)
    \/ ScanSend(k)

(***************************************************************************)
(* Seed data: documents that POST /api/session has stored.                 *)
(***************************************************************************)
Day(n) == n * SecondsPerDay

NineOClock == <<"0", "9", ":", "0", "0">>

HalfPastTen == <<"1", "0", ":", "3", "0">>

\* A Session document as POST /api/session stores it (currentBookings = 0
\* and packageDuration = 90, the schema's defaults).
SessionDoc(id, date, time, maxCapacity, isActive) ==
    [id |-> id, date |-> date, time |-> time, maxCapacity |-> maxCapacity,
     currentBookings |-> 0, isActive |-> isActive, packageDuration |-> 90]

\* A Booking document as POST /api/booking stores it.
BookingDoc(id, session, client, groupSize) ==
    [id |-> id, session |-> session.id, client |-> client, groupSize |-> groupSize,
     status |-> "confirmed", isPackageBooking |-> FALSE,
     cancellationDeadline |-> CancellationDeadline(session), canCancel |-> TRUE]

(***************************************************************************)
(* Requests served one at a time: each runs to completion before the next  *)
(* starts, and logins happen between requests.                             *)
(***************************************************************************)
Quiet == \A r \in DOMAIN req : ~InFlight(r)

\* The seeded session starts on day 2 at 09:00, so the cancellation deadline
\* of its bookings is day 1, 09:00.
SeedDeadline == Day(1) + (9 * 3600)

SeqSessionIds == {1, 2}         \* 2 names no stored session

\* Capacity and cascade: every capacity and group size of the schema, a
\* session that may be inactive, and a clock that stands one second before
\* or one second after the deadline.
InitSeq ==
    /\ now \in {SeedDeadline - 1, SeedDeadline + 1}
    /\ currentUser = "none"
    /\ users = [u \in UserIds |-> NoPackage]
    /\ \E cap \in 1..4, active \in BOOLEAN :
          sessions = {SessionDoc(1, Day(2) + 3600, NineOClock, cap, active)}
    /\ bookings = {}
    /\ nextBookingId = 1
    /\ req = [r \in {1} |-> IdleReq]
    /\ scan = [k \in {"cron"} |-> IdleScan]
    /\ reminders = [b \in {} |-> 0]
    /\ nextSessionId = 2
    /\ reminderCalls = [b \in {} |-> 0]
    /\ faults = 0

NextSeq ==
    \/ \E sid \in SeqSessionIds, groupSize \in 0..4, pkg \in BOOLEAN :
          CreateBookingStart(1, sid, groupSize, pkg)
    \/ CreateBookingStep(1)
    \/ \E bid \in 1..MaxBookings : CancelBookingStart(1, bid)
    \/ CancelBookingStep(1)
    \/ \E sid \in SeqSessionIds : DeleteSessionStart(1, sid)
    \/ DeleteSessionStep(1)
    \/ \E u \in {"c1", "adm"} : Quiet /\ Login(u)
    \/ Quiet /\ Logout

SpecSeq == InitSeq /\ [][NextSeq]_vars

\* Cancellation policy and package counter: one session of capacity 2, and
\* a clock that passes the second before the deadline, the deadline, and the
\* second after it.
PolicyInstants == {SeedDeadline, SeedDeadline + 1}

InitPolicy ==
    /\ now = SeedDeadline - 1
    /\ currentUser = "none"
    /\ users = [u \in UserIds |-> NoPackage]
    /\ sessions = {SessionDoc(1, Day(2) + 3600, NineOClock, 2, TRUE)}
    /\ bookings = {}
    /\ nextBookingId = 1
    /\ req = [r \in {1} |-> IdleReq]
    /\ scan = [k \in {"cron"} |-> IdleScan]
    /\ reminders = [b \in {} |-> 0]
    /\ nextSessionId = 2
    /\ reminderCalls = [b \in {} |-> 0]
    /\ faults = 0

NextPolicy ==
    \/ \E groupSize \in 1..2, pkg \in BOOLEAN : CreateBookingStart(1, 1, groupSize, pkg)
    \/ CreateBookingStep(1)
    \/ \E bid \in 1..MaxBookings : CancelBookingStart(1, bid)
    \/ CancelBookingStep(1)
    \/ \E u \in UserIds : Quiet /\ Login(u)
    \/ Quiet /\ Logout
    \/ Tick(PolicyInstants)

SpecPolicy == InitPolicy /\ [][NextPolicy]_vars

(***************************************************************************)
(* Packages granted and reset by the trainer between the bookings and      *)
(* cancellations of client c1, one request at a time.  The requests name   *)
(* client c1, the trainer, or "zz", the id of no user.                     *)
(***************************************************************************)
ClientIds == {"c1", "adm", "zz"}

NextPackages ==
    \/ \E pkg \in BOOLEAN : CreateBookingStart(1, 1, 1, pkg)
    \/ CreateBookingStep(1)
    \/ \E bid \in 1..MaxBookings : CancelBookingStart(1, bid)
    \/ CancelBookingStep(1)
    \/ \E cid \in ClientIds : AddPackageStart(1, cid)
    \/ AddPackageStep(1)
    \/ \E cid \in ClientIds : ResetPackageStart(1, cid)
    \/ ResetPackageApply(1)
    \/ \E u \in {"c1", "adm"} : Quiet /\ Login(u)
    \/ Tick({SeedDeadline})

SpecPackages == InitPolicy /\ [][NextPackages]_vars

(***************************************************************************)
(* One booking or cancellation in flight at a time, while other users log  *)
(* in and out: POST /login and GET /logout assign currentUser between the  *)
(* awaits of the handler.                                                  *)
(***************************************************************************)
NextIdentity ==
    \/ \E groupSize \in 1..2, pkg \in BOOLEAN : CreateBookingStart(1, 1, groupSize, pkg)
    \/ CreateBookingStep(1)
    \/ \E bid \in 1..MaxBookings : CancelBookingStart(1, bid)
    \/ CancelBookingStep(1)
    \/ \E u \in UserIds : Login(u)
    \/ Logout

SpecIdentity == InitPolicy /\ [][NextIdentity]_vars

(***************************************************************************)
(* A booking and the deletion of its session in flight together: POST      *)
(* /api/booking in slot 1 and DELETE /api/session/1 in slot 2 interleave   *)
(* at their awaits, the client and the trainer logging in in between.      *)
(***************************************************************************)
InitCascade ==
    /\ now = SeedDeadline - 1
    /\ currentUser = "none"
    /\ users = [u \in UserIds |-> NoPackage]
    /\ sessions = {SessionDoc(1, Day(2) + 3600, NineOClock, 2, TRUE)}
    /\ bookings = {}
    /\ nextBookingId = 1
    /\ req = [r \in {1, 2} |-> IdleReq]
    /\ scan = [k \in {"cron"} |-> IdleScan]
    /\ reminders = [b \in {} |-> 0]
    /\ nextSessionId = 2
    /\ reminderCalls = [b \in {} |-> 0]
    /\ faults = 0

NextCascade ==
    \/ \E pkg \in BOOLEAN : CreateBookingStart(1, 1, 1, pkg)
    \/ CreateBookingStep(1)
    \/ DeleteSessionStart(2, 1)
    \/ DeleteSessionStep(2)
    \/ \E u \in {"c1", "adm"} : Login(u)

SpecCascade == InitCascade /\ [][NextCascade]_vars

(***************************************************************************)
(* Two DELETE /api/booking/:id requests of client c1 in flight together,   *)
(* interleaving at their awaits.  Booking 1 is a package-mode booking of   *)
(* c1, whose activeSessions is 1; the clock may pass the deadline.         *)
(***************************************************************************)
InitCancelTwice ==
    /\ now = SeedDeadline - 1
    /\ currentUser = "c1"
    /\ users = [u \in UserIds |->
                  IF u = "c1"
                  THEN [activeSessions |-> 1, packageExpiry |-> Day(90)]
                  ELSE NoPackage]
    /\ sessions = {SessionDoc(1, Day(2) + 3600, NineOClock, 2, TRUE)}
    /\ bookings = {[BookingDoc(1, SessionDoc(1, Day(2) + 3600, NineOClock, 2, TRUE), "c1", 1)
                      EXCEPT !.isPackageBooking = TRUE]}
    /\ nextBookingId = 2
    /\ req = [r \in {1, 2} |-> IdleReq]
    /\ scan = [k \in {"cron"} |-> IdleScan]
    /\ reminders = [b \in {1} |-> 0]
    /\ nextSessionId = 2
    /\ reminderCalls = [b \in {1} |-> 0]
    /\ faults = 0

NextCancelTwice ==
    \/ \E r \in {1, 2}, bid \in 1..2 : CancelBookingStart(r, bid)
    \/ \E r \in {1, 2} : CancelBookingStep(r)
    \/ Tick({SeedDeadline + 1})

SpecCancelTwice == InitCancelTwice /\ [][NextCancelTwice]_vars

(***************************************************************************)
(* Requests served one at a time over a store whose writes may fail.       *)
(***************************************************************************)
NextFaults ==
    \/ \E groupSize \in 1..2, pkg \in BOOLEAN : CreateBookingStart(1, 1, groupSize, pkg)
    \/ CreateBookingStep(1)
    \/ \E bid \in 1..MaxBookings : CancelBookingStart(1, bid)
    \/ CancelBookingStep(1)
    \/ StoreWriteFails(1)
    \/ \E u \in UserIds : Quiet /\ Login(u)
    \/ Quiet /\ Logout

SpecFaults == InitPolicy /\ [][NextFaults]_vars

(***************************************************************************)
(* The scheduler alone: cron runs and manual runs over a fixed store.       *)
(***************************************************************************)
Noon == <<"1", "2", ":", "0", "0">>

\* Sessions at noon of day 1 (two bookings), at 10:30 of day 1 but inactive
\* (one booking), and at noon of day 2 (one booking).
ScanSessions ==
    {SessionDoc(1, Day(1), Noon, 4, TRUE),
     SessionDoc(2, Day(1), HalfPastTen, 4, FALSE),
     SessionDoc(3, Day(2), Noon, 4, TRUE)}

ScanBookings ==
    {BookingDoc(1, SessionDoc(1, Day(1), Noon, 4, TRUE), "c1", 1),
     BookingDoc(2, SessionDoc(1, Day(1), Noon, 4, TRUE), "c2", 2),
     BookingDoc(3, SessionDoc(2, Day(1), HalfPastTen, 4, FALSE), "c1", 1),
     BookingDoc(4, SessionDoc(3, Day(2), Noon, 4, TRUE), "c2", 1)}

\* Day 1: 09:45, 09:53 (noon - 2h07m), 10:00, 10:08 (noon - 1h52m), 10:15,
\* and 12:30, after the noon session has started.
ScanInstants ==
    {Day(1) + (9 * 3600) + (53 * 60), Day(1) + (10 * 3600),
     Day(1) + (10 * 3600) + (8 * 60), Day(1) + (10 * 3600) + (15 * 60),
     Day(1) + (12 * 3600) + (30 * 60)}

InitScan ==
    /\ now = Day(1) + (9 * 3600) + (45 * 60)
    /\ currentUser = "adm"
    /\ users = [u \in UserIds |-> NoPackage]
    /\ sessions = ScanSessions
    /\ bookings = ScanBookings
    /\ nextBookingId = 5
    /\ req = [r \in {1} |-> IdleReq]
    /\ scan = [k \in {"cron", "manual"} |-> IdleScan]
    /\ reminders = [b \in 1..4 |-> 0]
    /\ nextSessionId = 4
    /\ reminderCalls = [b \in 1..4 |-> 0]
    /\ faults = 0

NextScan ==
    \/ CronFire
    \/ ManualTrigger
    \/ ManualRespond
    \/ \E k \in {"cron", "manual"} : ScanStep(k)
    \/ Tick(ScanInstants)

SpecScan == InitScan /\ [][NextScan]_vars

(***************************************************************************)
(* Progress of POST /api/booking.  Every awaited store operation settles,  *)
(* so the handler's step after it is taken (weak fairness); a call of the  *)
(* mail service may never settle, so the steps after the mails are not     *)
(* required to happen.                                                     *)
(***************************************************************************)
NextLive ==
    \/ \E groupSize \in 1..2, pkg \in BOOLEAN : CreateBookingStart(1, 1, groupSize, pkg)
    \/ CreateBookingStep(1)
    \/ \E bid \in 1..MaxBookings : CancelBookingStart(1, bid)
    \/ CancelBookingStep(1)
    \/ \E u \in {"c1", "c2"} : Quiet /\ Login(u)
    \/ Quiet /\ Logout

StoreSettles ==
    /\ WF_vars(CreateBookingFindSession(1))
    /\ WF_vars(CreateBookingFindBookings(1))
    /\ WF_vars(CreateBookingPreSave(1))
    /\ WF_vars(CreateBookingInsert(1))
    /\ WF_vars(CreateBookingUpdateUser(1))
    /\ WF_vars(CancelBookingFind(1))
    /\ WF_vars(CancelBookingUpdateUser(1))
    /\ WF_vars(CancelBookingDelete(1))

SpecLive == InitPolicy /\ [][NextLive]_vars /\ StoreSettles

(***************************************************************************)
(* emailService called on its own: booking confirmations for any client    *)
(* and trainer, bulk messages to any list of at most MaxRecipients users,  *)
(* every mail delivered or rejected by the transport.                      *)
(***************************************************************************)
NextMail ==
    \/ \E client \in {"c1", "c2"} : SendBookingConfirmationStart(1, client, "adm")
    \/ SendBookingConfirmationClient(1)
    \/ SendBookingConfirmationTrainer(1)
    \/ \E recipients \in SeqUpTo(UserIds, MaxRecipients) :
          SendBulkCustomMessageStart(1, recipients)
    \/ SendBulkCustomMessageTurn(1)

SpecMail == InitPolicy /\ [][NextMail]_vars

(***************************************************************************)
(* Two sessions, of day 2 and of day 3 at 09:00, with two seats each:      *)
(* bookings are made and cancelled on both, either session, or one that is *)
(* not stored, is deleted, and a session of day 4 (or, refused, a second   *)
(* one of day 2) is created; one request at a time.                        *)
(***************************************************************************)
FrameSessions ==
    {SessionDoc(1, Day(2), NineOClock, 2, TRUE),
     SessionDoc(2, Day(3), NineOClock, 2, TRUE)}

InitFrame ==
    /\ now = SeedDeadline - 1
    /\ currentUser = "none"
    /\ users = [u \in UserIds |-> NoPackage]
    /\ sessions = FrameSessions
    /\ bookings = {}
    /\ nextBookingId = 1
    /\ req = [r \in {1} |-> IdleReq]
    /\ scan = [k \in {"cron"} |-> IdleScan]
    /\ reminders = [b \in {} |-> 0]
    /\ nextSessionId = 3
    /\ reminderCalls = [b \in {} |-> 0]
    /\ faults = 0

NextFrame ==
    \/ \E sid \in 1..2, groupSize \in 1..2, pkg \in BOOLEAN :
          CreateBookingStart(1, sid, groupSize, pkg)
    \/ CreateBookingStep(1)
    \/ \E bid \in 1..MaxBookings : CancelBookingStart(1, bid)
    \/ CancelBookingStep(1)
    \/ \E sid \in 1..3 : DeleteSessionStart(1, sid)
    \/ DeleteSessionStep(1)
    \/ \E date \in {Day(2), Day(4)} : CreateSessionStart(1, date, NineOClock, 1)
    \/ CreateSessionStep(1)
    \/ \E u \in UserIds : Quiet /\ Login(u)

SpecFrame == InitFrame /\ [][NextFrame]_vars

(***************************************************************************)
(* Sessions created and deleted, one request at a time.  The store starts  *)
(* with one session, of day 2 at 09:00 and with one booking, active or     *)
(* not; the requests name day 2 or day 3, at 09:00 or at noon.             *)
(***************************************************************************)
InitSessions ==
    /\ now = SeedDeadline - 1
    /\ currentUser = "none"
    /\ users = [u \in UserIds |-> NoPackage]
    /\ \E active \in BOOLEAN :
          /\ sessions = {SessionDoc(1, Day(2), NineOClock, 4, active)}
          /\ bookings = {BookingDoc(1, SessionDoc(1, Day(2), NineOClock, 4, active), "c1", 1)}
    /\ nextBookingId = 2
    /\ req = [r \in {1} |-> IdleReq]
    /\ scan = [k \in {"cron"} |-> IdleScan]
    /\ reminders = [b \in {1} |-> 0]
    /\ nextSessionId = 2
    /\ reminderCalls = [b \in {1} |-> 0]
    /\ faults = 0

NextSessions ==
    \/ \E date \in {Day(2), Day(3)}, time \in {NineOClock, Noon}, maxCapacity \in 3..5 :
          CreateSessionStart(1, date, time, maxCapacity)
    \/ CreateSessionStep(1)
    \/ \E sid \in 1..MaxSessions : DeleteSessionStart(1, sid)
    \/ DeleteSessionStep(1)
    \/ \E u \in {"c1", "adm"} : Quiet /\ Login(u)
    \/ Quiet /\ Logout

SpecSessions == InitSessions /\ [][NextSessions]_vars

(***************************************************************************)
(* The scheduler with a failing store and a mail service that may never    *)
(* answer: three sessions of day 1, at 12:00, 12:05 and 12:15, with one    *)
(* booking each, and the ticks of 10:00, 10:15 and 10:30.                  *)
(***************************************************************************)
FiveAfterNoon == <<"1", "2", ":", "0", "5">>

QuarterPastNoon == <<"1", "2", ":", "1", "5">>

FaultSessions ==
    {SessionDoc(1, Day(1), Noon, 4, TRUE),
     SessionDoc(2, Day(1), FiveAfterNoon, 4, TRUE),
     SessionDoc(3, Day(1), QuarterPastNoon, 4, TRUE)}

FaultBookings ==
    {BookingDoc(1, SessionDoc(1, Day(1), Noon, 4, TRUE), "c1", 1),
     BookingDoc(2, SessionDoc(2, Day(1), FiveAfterNoon, 4, TRUE), "c2", 1),
     BookingDoc(3, SessionDoc(3, Day(1), QuarterPastNoon, 4, TRUE), "c1", 1)}

FaultInstants == {Day(1) + (10 * 3600) + (15 * 60), Day(1) + (10 * 3600) + (30 * 60)}

InitScanFaults ==
    /\ now = Day(1) + (10 * 3600)
    /\ currentUser = "none"
    /\ users = [u \in UserIds |-> NoPackage]
    /\ sessions = FaultSessions
    /\ bookings = FaultBookings
    /\ nextBookingId = 4
    /\ req = [r \in {1} |-> IdleReq]
    /\ scan = [k \in {"cron"} |-> IdleScan]
    /\ reminders = [b \in 1..3 |-> 0]
    /\ nextSessionId = 4
    /\ reminderCalls = [b \in 1..3 |-> 0]
    /\ faults = 0

NextScanFaults ==
    \/ CronFire
    \/ ScanStep("cron")
    \/ ScanFindBookingsFails("cron")
    \/ ScanSendHangs("cron")
    \/ Tick(FaultInstants)

SpecScanFaults == InitScanFaults /\ [][NextScanFaults]_vars

(***************************************************************************)
(* Progress of the scheduler.  Every awaited query and every mail call     *)
(* returns or fails, so a run that waits takes its next step (weak         *)
(* fairness), and so does the route that waits for a manual run; no mail   *)
(* waits for ever.  Runs start at the tick of 10:00 and on POST            *)
(* /api/test-reminders by the trainer, over sessions at 12:00 and 12:05    *)
(* with one booking each.                                                  *)
(***************************************************************************)
LiveSessions ==
    {SessionDoc(1, Day(1), Noon, 4, TRUE),
     SessionDoc(2, Day(1), FiveAfterNoon, 4, TRUE)}

LiveBookings ==
    {BookingDoc(1, SessionDoc(1, Day(1), Noon, 4, TRUE), "c1", 1),
     BookingDoc(2, SessionDoc(2, Day(1), FiveAfterNoon, 4, TRUE), "c2", 1)}

InitScanLive ==
    /\ now = Day(1) + (10 * 3600)
    /\ currentUser = "adm"
    /\ users = [u \in UserIds |-> NoPackage]
    /\ sessions = LiveSessions
    /\ bookings = LiveBookings
    /\ nextBookingId = 3
    /\ req = [r \in {1} |-> IdleReq]
    /\ scan = [k \in {"cron", "manual"} |-> IdleScan]
    /\ reminders = [b \in 1..2 |-> 0]
    /\ nextSessionId = 3
    /\ reminderCalls = [b \in 1..2 |-> 0]
    /\ faults = 0

\* One step of a run: the awaited operation returned, or it failed.
ScanSettles(k) ==
    \/ ScanStep(k)
    \/ ScanFindSessionsFails(k)
    \/ ScanFindBookingsFails(k)

NextScanLive ==
    \/ CronFire
    \/ ManualTrigger
    \/ ManualRespond
    \/ \E k \in {"cron", "manual"} : ScanSettles(k)

SpecScanLive ==
    /\ InitScanLive /\ [][NextScanLive]_vars
    /\ WF_vars(ScanSettles("cron"))
    /\ WF_vars(ScanSettles("manual"))
    /\ WF_vars(ManualRespond)

(***************************************************************************)
(* The scheduler tick by tick: the cron run of every quarter of an hour    *)
(* from 09:30 to 10:30 of day 1 starts and ends before the next, over one  *)
(* session of day 1 with two bookings.  The session starts at 11:52,       *)
(* 12:00, 12:07 or 12:08: 1h52m after a tick, two hours after one, 2h07m   *)
(* after one, or with a tick 2h08m before it and the next 1h53m before it. *)
(***************************************************************************)
EightToNoon == <<"1", "1", ":", "5", "2">>

SevenAfterNoon == <<"1", "2", ":", "0", "7">>

EightAfterNoon == <<"1", "2", ":", "0", "8">>

TickTimes == {EightToNoon, Noon, SevenAfterNoon, EightAfterNoon}

LastTick == Day(1) + (10 * 3600) + (30 * 60)

InitTicks ==
    /\ now = Day(1) + (9 * 3600) + (30 * 60)
    /\ currentUser = "none"
    /\ users = [u \in UserIds |-> NoPackage]
    /\ \E time \in TickTimes :
          /\ sessions = {SessionDoc(1, Day(1), time, 4, TRUE)}
          /\ bookings = {BookingDoc(1, SessionDoc(1, Day(1), time, 4, TRUE), "c1", 1),
                         BookingDoc(2, SessionDoc(1, Day(1), time, 4, TRUE), "c2", 2)}
    /\ nextBookingId = 3
    /\ req = [r \in {1} |-> IdleReq]
    /\ scan = [k \in {"cron"} |-> IdleScan]
    /\ reminders = [b \in 1..2 |-> 0]
    /\ nextSessionId = 2
    /\ reminderCalls = [b \in 1..2 |-> 0]
    /\ faults = 0

NextTicks ==
    \/ CronFire
    \/ ScanStep("cron")
    \/ /\ scan["cron"].pc = "idle" /\ scan["cron"].startedAt = now
       /\ now < LastTick
       /\ Tick({now + (15 * 60)})

SpecTicks == InitTicks /\ [][NextTicks]_vars

(***************************************************************************)
(* The 10:00 and 10:15 cron runs while the trainer cancels bookings and     *)
(* deletes sessions: the awaits of a run and those of a request handler    *)
(* interleave.  Session 1 (noon, active) has two confirmed bookings, one   *)
(* of them a package booking, and one whose status is cancelled; session 2 *)
(* (12:05, inactive) has one confirmed booking.                            *)
(***************************************************************************)
StoreSessions ==
    {SessionDoc(1, Day(1), Noon, 4, TRUE),
     SessionDoc(2, Day(1), FiveAfterNoon, 4, FALSE)}

StoreBookings ==
    {BookingDoc(1, SessionDoc(1, Day(1), Noon, 4, TRUE), "c1", 1),
     [BookingDoc(2, SessionDoc(1, Day(1), Noon, 4, TRUE), "c2", 1)
        EXCEPT !.isPackageBooking = TRUE],
     [BookingDoc(3, SessionDoc(1, Day(1), Noon, 4, TRUE), "c2", 1)
        EXCEPT !.status = "cancelled"],
     BookingDoc(4, SessionDoc(2, Day(1), FiveAfterNoon, 4, FALSE), "c1", 1)}

InitScanStore ==
    /\ now = Day(1) + (10 * 3600)
    /\ currentUser = "adm"
    /\ users = [u \in UserIds |-> NoPackage]
    /\ sessions = StoreSessions
    /\ bookings = StoreBookings
    /\ nextBookingId = 5
    /\ req = [r \in {1} |-> IdleReq]
    /\ scan = [k \in {"cron"} |-> IdleScan]
    /\ reminders = [b \in 1..4 |-> 0]
    /\ nextSessionId = 3
    /\ reminderCalls = [b \in 1..4 |-> 0]
    /\ faults = 0

NextScanStore ==
    \/ CronFire
    \/ ScanStep("cron")
    \/ \E bid \in 1..4 : CancelBookingStart(1, bid)
    \/ CancelBookingStep(1)
    \/ \E sid \in 1..2 : DeleteSessionStart(1, sid)
    \/ DeleteSessionStep(1)
    \/ Tick({Day(1) + (10 * 3600) + (15 * 60)})

SpecScanStore == InitScanStore /\ [][NextScanStore]_vars

(***************************************************************************)
(* Bookings requested concurrently: two POST /api/booking handlers          *)
(* interleave at their awaits, and logins and logouts interleave with both. *)
(***************************************************************************)
Requests == {1, 2}

Init ==
    /\ now = SeedDeadline - 1
    /\ currentUser = "none"
    /\ users = [u \in UserIds |-> NoPackage]
    /\ \E cap \in 1..2 :
          sessions = {SessionDoc(1, Day(2) + 3600, NineOClock, cap, TRUE)}
    /\ bookings = {}
    /\ nextBookingId = 1
    /\ req = [r \in Requests |-> IdleReq]
    /\ scan = [k \in {"cron"} |-> IdleScan]
    /\ reminders = [b \in {} |-> 0]
    /\ nextSessionId = 2
    /\ reminderCalls = [b \in {} |-> 0]
    /\ faults = 0

Next ==
    \/ \E r \in Requests, groupSize \in 1..2, pkg \in BOOLEAN :
          CreateBookingStart(r, 1, groupSize, pkg)
    \/ \E r \in Requests : CreateBookingStep(r)
    \/ \E u \in UserIds : Login(u)
    \/ Logout

Spec == Init /\ [][Next]_vars

(***************************************************************************)
(* Properties.                                                             *)
(***************************************************************************)
\* Seats taken in a session: the sum of groupSize over its confirmed bookings.
Occupied(bs, sid) ==
    SumGroupSize({b \in bs : b.session = sid /\ b.status = "confirmed"})

Done(r, op) == req[r].op = op /\ req[r].pc = "done"

\* C1: under any interleaving of concurrent createBooking requests on a
\* session, its confirmed bookings never take more than maxCapacity seats
\* (of two simultaneous requests for the last seat only one gets it).
C1_NoOverbooking ==
    \A s \in sessions :
        SumGroupSize({b \in bookings : b.session = s.id /\ b.status = "confirmed"})
            <= s.maxCapacity

\* C2: with requests served one at a time, after any sequence of
\* createBooking, cancelBooking and deleteSession the confirmed bookings of
\* every session take at most maxCapacity seats.
C2_CapacityRespected ==
    \A s \in sessions : Occupied(bookings, s.id) <= s.maxCapacity

\* A full session holding two bookings, and a createBooking just refused.
C2_Witness ==
    /\ \E s \in sessions :
          /\ Occupied(bookings, s.id) = s.maxCapacity
          /\ Cardinality({b \in bookings : b.session = s.id}) = 2
    /\ Done(1, "createBooking") /\ req[1].result = "e400"

\* C3: a client's createBooking with groupSize in 1..4 succeeds (and stores
\* the booking) exactly when the session exists, is active, and the seats
\* occupied before the request plus groupSize are at most maxCapacity.
C3_CanBook ==
    \A r \in DOMAIN req :
        (/\ Done(r, "createBooking")
         /\ req[r].actor # "none" /\ Role(req[r].actor) = "client"
         /\ req[r].groupSize \in 1..4)
        => /\ req[r].result = "ok"
              <=> \E s \in sessions :
                     /\ s.id = req[r].sid
                     /\ s.isActive
                     /\ Occupied(req[r].before.bookings, s.id) + req[r].groupSize
                            <= s.maxCapacity
           /\ req[r].result = "ok"
              => /\ Occupied(bookings, req[r].sid)
                        = Occupied(req[r].before.bookings, req[r].sid) + req[r].groupSize
                 /\ \E b \in bookings \ req[r].before.bookings :
                        /\ b.session = req[r].sid
                        /\ b.client = req[r].actor
                        /\ b.groupSize = req[r].groupSize
           /\ req[r].result # "ok" => bookings = req[r].before.bookings

\* Capacity 4: a booking of 3 seats and one of 1 seat are stored (occupied
\* 3, then 4), and a further request for a single seat has been refused.
C3_Witness ==
    /\ \E s \in sessions : s.id = 1 /\ s.maxCapacity = 4 /\ s.isActive
    /\ {b.groupSize : b \in {x \in bookings : x.session = 1}} = {3, 1}
    /\ Occupied(bookings, 1) = 4
    /\ Done(1, "createBooking") /\ req[1].groupSize = 1 /\ req[1].result = "e400"
    /\ req[1].actor = "c1"

\* The instant a session's date and "HH:MM" time name: midnight of the
\* date's day plus HH hours and MM minutes.
DateAndTime(s) ==
    (s.date - (s.date % 86400))
        + ((10 * DigitValue(s.time[1]) + DigitValue(s.time[2])) * 3600)
        + ((10 * DigitValue(s.time[4]) + DigitValue(s.time[5])) * 60)

\* C4: every stored booking's cancellationDeadline is its session's date
\* and HH:MM time minus exactly 24 hours, from the step that stores the
\* booking on: no later step changes it.
C4_DeadlineFixed ==
    [][/\ \A b \in bookings' :
             \E s \in sessions' :
                 /\ s.id = b.session
                 /\ b.cancellationDeadline = DateAndTime(s) - 86400
       /\ \A b \in bookings : \A c \in bookings' :
             c.id = b.id => c.cancellationDeadline = b.cancellationDeadline]_vars

\* A booking of the seeded session (day 2, 09:00) is stored with deadline
\* day 1, 09:00, and has outlived a refused cancellation.
C4_Witness ==
    /\ \E b \in bookings : b.cancellationDeadline = 86400 + (9 * 3600)
    /\ Done(1, "cancelBooking") /\ req[1].result = "e400"

\* The booking a cancelBooking request names, as stored when it arrived.
Target(r) == {b \in req[r].before.bookings : b.id = req[r].bid}

\* C5: cancelBooking by the booking's own client succeeds strictly before
\* the cancellation deadline and is refused, the booking kept, strictly
\* after it; cancelBooking by an admin succeeds at any time.
C5_CancellationWindow ==
    \A r \in DOMAIN req : \A b \in Target(r) :
        Done(r, "cancelBooking") =>
            /\ (req[r].actor = b.client /\ req[r].nowRead < b.cancellationDeadline)
                  => req[r].result = "ok" /\ b \notin bookings
            /\ (req[r].actor = b.client /\ req[r].nowRead > b.cancellationDeadline)
                  => req[r].result = "e400" /\ b \in bookings
            /\ (req[r].actor # "none" /\ Role(req[r].actor) = "admin")
                  => req[r].result = "ok" /\ b \notin bookings

\* The owner is refused one second after the deadline and the booking stays.
C5_Witness ==
    \E b \in bookings :
        /\ Done(1, "cancelBooking") /\ req[1].bid = b.id
        /\ req[1].actor = b.client
        /\ req[1].nowRead = b.cancellationDeadline + 1
        /\ req[1].result = "e400"

\* C6: a non-admin client's cancellation succeeds if and only if it is
\* attempted at an instant strictly before the cancellation deadline.
C6_StrictlyBeforeDeadline ==
    \A r \in DOMAIN req : \A b \in Target(r) :
        (Done(r, "cancelBooking") /\ req[r].actor = b.client)
        => (req[r].result = "ok" <=> req[r].nowRead < b.cancellationDeadline)

\* C9: a successful package-mode createBooking adds exactly 1 to the
\* client's activeSessions and sets packageExpiry to the instant the handler
\* read plus the session's packageDuration days; a successful cancelBooking of a
\* package-mode booking subtracts exactly 1; a non-package booking and its
\* cancellation leave activeSessions as it was.
C9_PackageCounter ==
    \A r \in DOMAIN req :
        /\ (Done(r, "createBooking") /\ req[r].result = "ok")
           => LET was == req[r].before.users[req[r].actor]
                  is == users[req[r].actor]
              IN  IF req[r].pkg
                  THEN /\ is.activeSessions = was.activeSessions + 1
                       /\ \A s \in sessions :
                              s.id = req[r].sid
                              => is.packageExpiry
                                     = req[r].nowRead + (s.packageDuration * 86400)
                       /\ req[r].nowRead <= now
                  ELSE is = was
        /\ (Done(r, "cancelBooking") /\ req[r].result = "ok")
           => \A b \in Target(r) :
                 users[b.client].activeSessions =
                     req[r].before.users[b.client].activeSessions
                         - (IF b.isPackageBooking THEN 1 ELSE 0)

\* A package-mode booking has been cancelled and the count is back from 1
\* to 0, its value before the booking.
C9_Witness ==
    \E b \in Target(1) :
        /\ Done(1, "cancelBooking") /\ req[1].result = "ok"
        /\ b.isPackageBooking
        /\ req[1].before.users[b.client].activeSessions = 1
        /\ users[b.client].activeSessions = 0
        /\ users[b.client].packageExpiry # NoDate

\* C10: deleteSession on a session with N confirmed bookings asks for
\* exactly N cancellation mails, whether or not any of them fails, and
\* afterwards no booking of that session and no such session is stored.
C10_DeleteSessionCascade ==
    \A r \in DOMAIN req :
        (Done(r, "deleteSession") /\ req[r].result = "ok")
        => /\ req[r].attempts =
                  Cardinality({b \in req[r].before.bookings :
                                  b.session = req[r].sid /\ b.status = "confirmed"})
           /\ \A b \in bookings : b.session # req[r].sid
           /\ \A s \in sessions : s.id # req[r].sid

\* Two bookings were notified, both mails failed, and session and bookings
\* are gone.
C10_Witness ==
    /\ Done(1, "deleteSession") /\ req[1].result = "ok"
    /\ Cardinality(req[1].before.bookings) = 2
    /\ req[1].attempts = 2 /\ req[1].failures = 2
    /\ bookings = {} /\ sessions = {}

\* The window the reminder is specified for: a scan at t reminds of a
\* session starting at start iff start - 2h07m <= t <= start - 1h52m.
InReminderWindow(t, start) ==
    /\ start - ((2 * 3600) + (7 * 60)) <= t
    /\ t <= start - ((1 * 3600) + (52 * 60))

\* A run that has ended: idle again, with the locals of the run.
ScanEnded(k) == scan[k].pc = "idle" /\ scan[k].startedAt # NoDate

\* C7: a reminder scan run at time t dispatches reminders for an active
\* session starting at T if and only if T - 2h07m <= t <= T - 1h52m; for any
\* other session (same day or not, already started or not) it dispatches
\* nothing.
C7_ReminderWindow ==
    \A k \in DOMAIN scan :
        ScanEnded(k) =>
            \A s \in sessions :
                s.id \in scan[k].dispatched
                    <=> s.isActive /\ InReminderWindow(scan[k].startedAt, SessionStart(s))

\* C8: across any number of scans, by cron or by the manual trigger, every
\* confirmed booking gets at most one reminder.
C8_AtMostOneReminder ==
    \A b \in bookings : b.id \in DOMAIN reminders => reminders[b.id] <= 1

\* C11: a mail that is not sent during createBooking or cancelBooking never
\* changes the outcome: once the handler has reached its mails, the request
\* is answered with success, the booking is stored (or deleted), and the
\* package counter update stays, however many of the mails failed.
C11_MailFailureHarmless ==
    \A r \in DOMAIN req :
        /\ (Done(r, "createBooking") /\ req[r].attempts > 0)
           => /\ req[r].result = "ok"
              /\ \E b \in bookings \ req[r].before.bookings :
                     b.session = req[r].sid /\ b.client = req[r].actor
              /\ users[req[r].actor].activeSessions =
                     req[r].before.users[req[r].actor].activeSessions
                         + (IF req[r].pkg THEN 1 ELSE 0)
        /\ (Done(r, "cancelBooking") /\ req[r].attempts > 0)
           => /\ req[r].result = "ok"
              /\ \A b \in Target(r) :
                     /\ b \notin bookings
                     /\ users[b.client].activeSessions =
                            req[r].before.users[b.client].activeSessions
                                - (IF b.isPackageBooking THEN 1 ELSE 0)

\* A package-mode cancellation whose mail failed: answered with success,
\* the booking deleted and the counter back at 0.
C11_Witness ==
    \E b \in Target(1) :
        /\ Done(1, "cancelBooking") /\ req[1].failures = 1
        /\ req[1].result = "ok"
        /\ b.isPackageBooking /\ b \notin bookings
        /\ users[b.client].activeSessions = 0

\* C12: whenever createBooking or cancelBooking answers with an error, the
\* bookings and every client's activeSessions and packageExpiry are what
\* they were when the request arrived.
C12_ErrorLeavesNoChange ==
    \A r \in DOMAIN req :
        (/\ Done(r, "createBooking") \/ Done(r, "cancelBooking")
         /\ req[r].result \in {"e400", "e403", "e404"})
        => /\ bookings = req[r].before.bookings
           /\ users = req[r].before.users

\* The number of sendSessionReminder calls a run made for a booking.
Calls(run, id) == Cardinality({i \in 1..Len(run.attempted) : run.attempted[i] = id})

\* C13: in a reminder scan a mail that fails for one booking does not end
\* the scan: when the scan has ended, every confirmed booking of every
\* active session inside the window has had its reminder attempted, and no
\* booking, failed or not, has been attempted twice.
C13_FailureIsolated ==
    \A k \in DOMAIN scan :
        ScanEnded(k) =>
            /\ \A s \in sessions :
                   (s.isActive /\ InReminderWindow(scan[k].startedAt, SessionStart(s)))
                   => \A b \in ConfirmedBookings(s.id) : Calls(scan[k], b.id) = 1
            /\ \A b \in bookings : Calls(scan[k], b.id) <= 1

\* The 10:00 scan has ended: the first booking of the noon session failed
\* and the second was attempted after it.
C13_Witness ==
    /\ ScanEnded("cron")
    /\ scan["cron"].startedAt = Day(1) + (10 * 3600)
    /\ scan["cron"].attempted = <<1, 2>>
    /\ scan["cron"].failed = {1}

\* C14: when the lookup of one matching session's bookings fails, the scan
\* still dispatches for the other matching sessions: when the scan has
\* ended, every confirmed booking of every active session inside the window
\* whose own lookup did not fail has had its reminder attempted.
C14_LookupFailureIsolated ==
    \A k \in DOMAIN scan :
        ScanEnded(k) =>
            \A s \in sessions :
                (/\ s.isActive
                 /\ InReminderWindow(scan[k].startedAt, SessionStart(s))
                 /\ s.id \notin scan[k].lookupFailed)
                => \A b \in ConfirmedBookings(s.id) : Calls(scan[k], b.id) = 1

C16_NotifyAfterDelete ==
    \A r \in DOMAIN req :
        req[r].op = "cancelBooking" =>
            \A b \in Target(r) :
                /\ (b \notin bookings /\ b.isPackageBooking)
                   => users[b.client].activeSessions =
                          req[r].before.users[b.client].activeSessions - 1
                /\ req[r].attempts > 0 => b \notin bookings

\* C17: the answer of createBooking does not wait for the mails: once the
\* booking is stored, the caller is eventually answered with success, even
\* if a call of the mail service never completes.
C17_ResponseDoesNotWait ==
    (/\ req[1].op = "createBooking"
     /\ req[1].pc \in {"cbUpdateUser", "cbMailClient", "cbMailTrainer"})
    ~> (Done(1, "createBooking") /\ req[1].result = "ok")

\* C19: with a scan every 15 minutes, every active session with a confirmed
\* booking has a tick inside its reminder window (from 2h07m to 1h52m
\* before its start), the scan of that tick calls for the reminder of each
\* of its confirmed bookings, and so each has had a reminder attempted once
\* the window is over, before the session starts.
C19_EveryBookingReminded ==
    \A s \in sessions :
        s.isActive =>
            /\ \E n \in 0..(4 * 24 * 2) : InReminderWindow(n * 15 * 60, SessionStart(s))
            /\ \A b \in ConfirmedBookings(s.id) :
                   /\ (/\ ScanEnded("cron")
                       /\ InReminderWindow(scan["cron"].startedAt, SessionStart(s)))
                      => Calls(scan["cron"], b.id) = 1
                   /\ now > SessionStart(s) - ((1 * 3600) + (52 * 60))
                      => reminderCalls[b.id] >= 1

\* The session of 12:08: the tick of 10:00 is 2h08m before it, the tick of
\* 10:15 is 1h53m before it, and the scan of 10:15 has called for both of
\* its bookings.
C19_Witness ==
    /\ \E s \in sessions : s.time = EightAfterNoon
    /\ ScanEnded("cron")
    /\ scan["cron"].startedAt = Day(1) + (10 * 3600) + (15 * 60)
    /\ scan["cron"].attempted = <<1, 2>>
    /\ now = LastTick

\* C20: a reminder scan calls sendSessionReminder only for bookings that
\* are, when it calls, stored with status confirmed and of a stored session
\* with isActive = true, and at most once for a booking; a booking of an
\* inactive session and a deleted booking get no reminder.
C20_OnlyStoredConfirmedActive ==
    \A k \in DOMAIN scan :
        /\ scan[k].stale = {}
        /\ \A id \in 1..4 : Calls(scan[k], id) <= 1

\* The states of the scan cycle: Scanning while Session.find is awaited,
\* Dispatching from its result to the last reminder.  A run whose query
\* fails or finds nothing has nothing to dispatch and is Idle at once.
Phase(pc) ==
    IF pc = "idle" THEN "Idle"
    ELSE IF pc = "srFindSessions" THEN "Scanning"
    ELSE IF pc \in {"srLoop", "srFindBookings", "srSend"} THEN "Dispatching"
    ELSE "Other"

CycleOrder ==
    {<<"Idle", "Idle">>, <<"Idle", "Scanning">>, <<"Scanning", "Scanning">>,
     <<"Scanning", "Dispatching">>, <<"Scanning", "Idle">>,
     <<"Dispatching", "Dispatching">>, <<"Dispatching", "Idle">>}

\* C21: every reminder scan, started by the tick or by the manual trigger,
\* goes Idle, Scanning, Dispatching, Idle; if every query and every mail
\* call returns or fails, the scan ends, no error reaches its caller, and
\* the manual trigger is answered with success.
C21_ScanTerminates ==
    /\ [][\A k \in {"cron", "manual"} :
             <<Phase(scan[k].pc), Phase(scan'[k].pc)>> \in CycleOrder]_vars
    /\ (scan["cron"].pc # "idle") ~> (scan["cron"].pc = "idle")
    /\ [](scan["manual"].answer \in {"none", "pending", "ok"})
    /\ (scan["manual"].answer = "pending")
          ~> (scan["manual"].answer = "ok" /\ scan["manual"].pc = "idle")

\* A manual run whose lookup of bookings was rejected after it had called
\* for one reminder: it has ended and the trigger was answered with success.
C21_Witness ==
    /\ scan["manual"].pc = "idle"
    /\ scan["manual"].answer = "ok"
    /\ scan["manual"].lookupFailed # {}
    /\ Len(scan["manual"].attempted) = 1

\* C22: grantPackage on an existing client adds exactly 8 to activeSessions
\* and sets packageExpiry to the instant the handler read plus 90 days;
\* resetPackage sets activeSessions to 0 and packageExpiry to null; both
\* leave every booking and every other user as they were, and on an id that
\* names no user both report not-found and change nothing.
C22_GrantAndReset ==
    \A r \in DOMAIN req :
        (/\ Done(r, "addPackage") \/ Done(r, "resetPackage")
         /\ req[r].actor = "adm")
        => LET was == req[r].before.users
               cid == req[r].cid
           IN  /\ bookings = req[r].before.bookings
               /\ \A u \in DOMAIN users : u # cid => users[u] = was[u]
               /\ (cid \in DOMAIN users /\ Role(cid) = "client" /\ req[r].op = "addPackage")
                  => /\ req[r].result = "ok"
                     /\ users[cid].activeSessions = was[cid].activeSessions + 8
                     /\ users[cid].packageExpiry = req[r].nowRead + (90 * 86400)
                     /\ req[r].nowRead <= now
               /\ (cid \in DOMAIN users /\ Role(cid) = "client" /\ req[r].op = "resetPackage")
                  => /\ req[r].result = "ok"
                     /\ users[cid].activeSessions = 0
                     /\ users[cid].packageExpiry = NoDate
               /\ cid \notin DOMAIN users
                  => req[r].result = "e404" /\ users = was

\* A second package has been granted to a client who held 9 sessions and an
\* earlier expiry: 17 sessions, expiry 90 days from the later instant.
C22_Witness ==
    /\ Done(1, "addPackage") /\ req[1].result = "ok" /\ req[1].cid = "c1"
    /\ req[1].before.users["c1"].activeSessions = 9
    /\ req[1].before.users["c1"].packageExpiry < users["c1"].packageExpiry
    /\ users["c1"].activeSessions = 17

C24_IdentityFixed ==
    /\ \A b \in bookings : Role(b.client) # "admin"
    /\ \A r \in DOMAIN req :
          /\ (req[r].op = "createBooking" /\ req[r].actor # "none")
             => /\ \A b \in bookings \ req[r].before.bookings : b.client = req[r].actor
                /\ \A u \in DOMAIN users :
                       u # req[r].actor => users[u] = req[r].before.users[u]
          /\ (Done(r, "cancelBooking") /\ req[r].actor # "none")
             => \A b \in Target(r) :
                   /\ (Role(req[r].actor) # "admin" /\ b.client # req[r].actor)
                      => req[r].result = "e403"
                   /\ (Role(req[r].actor) = "admin") => req[r].result = "ok"

\* C25: under any interleaving of createBooking and deleteSession on the
\* same session, every stored booking is of a session that is stored and
\* has its cancellationDeadline set: no booking is left behind for a
\* deleted session.
C25_NoOrphanBooking ==
    \A b \in bookings :
        /\ \E s \in sessions : s.id = b.session
        /\ b.cancellationDeadline # NoDate

\* The cancelBooking requests that have asked for the cancellation mail of
\* booking 1: those waiting for the delete and those answered with success.
Notified ==
    {r \in DOMAIN req :
        /\ req[r].op = "cancelBooking"
        /\ req[r].pc = "xbDelete" \/ (req[r].pc = "done" /\ req[r].result = "ok")}

\* C26: under any interleaving of two cancelBooking requests for the same
\* package-mode booking, the client's activeSessions is decremented exactly
\* once (from 1 to 0, never below: it is 0 once the booking is deleted) and
\* the cancellation mail is asked for by one request only.
C26_CancelledOnce ==
    /\ users["c1"].activeSessions >= 0
    /\ Cardinality(Notified) <= 1
    /\ bookings = {} => users["c1"].activeSessions = 0

\* C27: cancelling a package-mode booking takes exactly 1 from the client's
\* activeSessions whatever its value, zero or less included: there is no
\* floor, so a negative count is reachable.
C27_NoFloor ==
    \A r \in DOMAIN req :
        (Done(r, "cancelBooking") /\ req[r].result = "ok")
        => \A b \in Target(r) :
              b.isPackageBooking
              => users[b.client].activeSessions =
                     req[r].before.users[b.client].activeSessions - 1

\* The trainer has reset the package of a client who held a package-mode
\* booking, and the booking has then been cancelled: the count is -1.
C27_Witness ==
    \E b \in Target(1) :
        /\ Done(1, "cancelBooking") /\ req[1].result = "ok"
        /\ b.isPackageBooking
        /\ req[1].before.users[b.client] = NoPackage
        /\ users[b.client].activeSessions = 0 - 1

\* C28: canCancel is computed once, when the pre-save hook runs at creation,
\* as (the instant then < cancellationDeadline); the booking is stored with
\* that value and no later step changes it.  Whether a cancellation is
\* allowed depends only on the caller's role and on the current time
\* against cancellationDeadline, whatever the stored flag says.
C28_CanCancelFixed ==
    /\ [][
          /\ \A r \in DOMAIN req :
               (req[r].pc = "cbPreSave" /\ req'[r].pc = "cbInsert")
               => \A d \in req'[r].doc :
                     d.canCancel = (now < d.cancellationDeadline)
          /\ \A r \in DOMAIN req :
               (req[r].pc = "cbInsert" /\ req'[r].pc # "cbInsert")
               => \A d \in req[r].doc : \A c \in bookings' \ bookings :
                     c.canCancel = d.canCancel
          /\ \A b \in bookings : \A c \in bookings' :
               c.id = b.id => c.canCancel = b.canCancel
       ]_vars
    /\ [](\A r \in DOMAIN req : \A b \in Target(r) :
             (/\ Done(r, "cancelBooking")
              /\ req[r].actor # "none"
              /\ Role(req[r].actor) = "admin" \/ b.client = req[r].actor)
             => (req[r].result = "ok"
                    <=> \/ Role(req[r].actor) = "admin"
                        \/ ~(req[r].nowRead > b.cancellationDeadline)))

\* A booking created at the very instant of its deadline is stored with
\* canCancel = false, and its client has cancelled it all the same.
C28_Witness ==
    \E b \in Target(1) :
        /\ Done(1, "cancelBooking") /\ req[1].result = "ok"
        /\ req[1].actor = b.client
        /\ ~b.canCancel
        /\ b \notin bookings

\* C29: cancellation deletes the record: every stored booking has status
\* confirmed, and once cancelBooking has succeeded the booking is no longer
\* stored and the seats of its session that createBooking counts as taken
\* have gone down by its groupSize.
C29_CancelDeletes ==
    /\ \A b \in bookings : b.status = "confirmed"
    /\ \A r \in DOMAIN req : \A b \in Target(r) :
           (Done(r, "cancelBooking") /\ req[r].result = "ok")
           => /\ \A c \in bookings : c.id # b.id
              /\ Occupied(bookings, b.session) =
                     Occupied(req[r].before.bookings, b.session) - b.groupSize

\* The first booking filled the session and was cancelled; a second booking
\* for the whole capacity has then been accepted and is the only one stored.
C29_Witness ==
    /\ Done(1, "createBooking") /\ req[1].result = "ok"
    /\ req[1].before.bookings = {}
    /\ \E b \in bookings, s \in sessions :
          /\ bookings = {b}
          /\ b.id = 2 /\ b.session = s.id
          /\ b.groupSize = s.maxCapacity

\* C30: a successful package-mode createBooking leaves the client's
\* packageExpiry at the instant the handler read plus the session's
\* packageDuration days, whatever it was before (in particular not the
\* previous expiry plus the duration), and changes no other user; a
\* successful cancelBooking removes the cancelled booking, takes 1 from the
\* owning client's activeSessions if it was a package booking, and changes
\* nothing else: packageExpiry, the other users, bookings and sessions stay.
C30_ExpiryOverwritten ==
    \A r \in DOMAIN req :
        /\ (Done(r, "createBooking") /\ req[r].result = "ok" /\ req[r].pkg)
           => LET was == req[r].before.users[req[r].actor]
                  is == users[req[r].actor]
              IN  /\ \A s \in sessions :
                         s.id = req[r].sid
                         => /\ is.packageExpiry
                                  = req[r].nowRead + (s.packageDuration * SecondsPerDay)
                            /\ was.packageExpiry # NoDate
                               => is.packageExpiry
                                     # was.packageExpiry
                                          + (s.packageDuration * SecondsPerDay)
                  /\ \A u \in DOMAIN users \ {req[r].actor} :
                         users[u] = req[r].before.users[u]
        /\ (Done(r, "cancelBooking") /\ req[r].result = "ok")
           => \A b \in Target(r) :
                 /\ users = [req[r].before.users EXCEPT
                                ![b.client].activeSessions =
                                    @ - (IF b.isPackageBooking THEN 1 ELSE 0)]
                 /\ bookings = req[r].before.bookings \ {b}
                 /\ sessions = req[r].before.sessions

\* A client whose package already had an expiry has booked in package mode
\* at a later instant, and the expiry has moved to that instant's.
C30_Witness ==
    /\ Done(1, "createBooking") /\ req[1].result = "ok" /\ req[1].pkg
    /\ req[1].before.users[req[1].actor].packageExpiry # NoDate
    /\ users[req[1].actor].packageExpiry
          > req[1].before.users[req[1].actor].packageExpiry
    /\ users[req[1].actor].activeSessions = 2

\* C31: a successful deleteSession leaves exactly the bookings of the other
\* sessions (every booking of the deleted session is gone, no other is),
\* exactly the other sessions, unchanged, and every user as it was:
\* activeSessions and packageExpiry keep their values even when package
\* bookings were deleted.
C31_DeleteSessionFrame ==
    \A r \in DOMAIN req :
        (Done(r, "deleteSession") /\ req[r].result = "ok")
        => /\ bookings = {b \in req[r].before.bookings : b.session # req[r].sid}
           /\ sessions = {s \in req[r].before.sessions : s.id # req[r].sid}
           /\ users = req[r].before.users

\* Session 1 held a package booking and session 2 another booking; session 1
\* was deleted, the other booking is still stored, and the client of the
\* deleted booking still counts one active session.
C31_Witness ==
    /\ Done(1, "deleteSession") /\ req[1].result = "ok"
    /\ \E b \in req[1].before.bookings :
          /\ b.session = req[1].sid
          /\ b.isPackageBooking
          /\ b \notin bookings
          /\ users[b.client].activeSessions = 1
    /\ \E c \in bookings : c.session # req[1].sid

\* C32: a stored session is never modified: a step leaves every session
\* document as it is or removes it, and a document that appears has a new
\* id; in particular createBooking and cancelBooking leave the sessions as
\* they found them.  The seats taken are summed from the confirmed bookings:
\* the stored currentBookings stays at 0 whatever is booked, and a valid
\* createBooking on an active session succeeds exactly when the confirmed
\* bookings' seats plus its groupSize fit in maxCapacity.
C32_SessionImmutable ==
    /\ [][\A t \in sessions' :
             \/ t \in sessions
             \/ \A s \in sessions : s.id # t.id]_vars
    /\ [](\A s \in sessions : s.currentBookings = 0)
    /\ [](\A r \in DOMAIN req :
             /\ (Done(r, "createBooking") \/ Done(r, "cancelBooking"))
                => sessions = req[r].before.sessions
             /\ (Done(r, "createBooking") /\ req[r].actor # "none"
                   /\ Role(req[r].actor) = "client")
                => \A s \in req[r].before.sessions :
                      (s.id = req[r].sid /\ s.isActive)
                      => (req[r].result = "ok"
                            <=> Occupied(req[r].before.bookings, s.id)
                                   + req[r].groupSize <= s.maxCapacity))

\* A booking for both seats of a session has been accepted and the
\* session's stored currentBookings is still 0.
C32_Witness ==
    /\ Done(1, "createBooking") /\ req[1].result = "ok"
    /\ \E s \in sessions :
          /\ s.id = req[1].sid
          /\ Occupied(bookings, s.id) = s.maxCapacity
          /\ s.currentBookings = 0
          /\ s \in req[1].before.sessions

\* C33: createBooking by an admin is answered 403 whatever the session
\* named (stored or not, active or not, full or not), the groupSize and the
\* package flag, and leaves bookings, users and sessions as they were.
C33_AdminCannotBook ==
    \A r \in DOMAIN req :
        (/\ req[r].op = "createBooking"
         /\ req[r].actor # "none"
         /\ Role(req[r].actor) = "admin")
        => /\ Done(r, "createBooking")
           /\ req[r].result = "e403"
           /\ bookings = req[r].before.bookings
           /\ users = req[r].before.users
           /\ sessions = req[r].before.sessions

\* An admin has asked for one seat, in package mode, of an active session
\* with every seat free, and has been refused.
C33_Witness ==
    /\ Done(1, "createBooking") /\ req[1].result = "e403"
    /\ req[1].actor = "adm"
    /\ req[1].groupSize = 1 /\ req[1].pkg
    /\ \E s \in sessions :
          /\ s.id = req[1].sid /\ s.isActive
          /\ Occupied(bookings, s.id) = 0

\* C34: sendEmail never throws, a mail the transport rejects is returned as
\* success = false: no call of the service rejects; sendBookingConfirmation
\* returns after asking for the client's mail and then the trainer's,
\* whether or not the client's was sent; sendBulkCustomMessage returns one
\* result per recipient, in the order of its input, whichever mails failed
\* (and while it runs the results are those of the first recipients).
C34_SendEmailNeverThrows ==
    \A r \in DOMAIN req :
        req[r].op \in {"sendBookingConfirmation", "sendBulkCustomMessage"}
        => /\ req[r].result # "threw"
           /\ Len(req[r].results) <= Len(req[r].recipients)
           /\ \A i \in 1..Len(req[r].results) :
                 req[r].results[i].recipient = req[r].recipients[i]
           /\ req[r].attempts = Len(req[r].results)
           /\ req[r].pc = "done"
              => /\ req[r].result = "returned"
                 /\ Len(req[r].results) = Len(req[r].recipients)

\* A bulk message to MaxRecipients recipients has returned: the first mail
\* failed, the last one was sent.
C34_Witness ==
    /\ Done(1, "sendBulkCustomMessage")
    /\ Len(req[1].recipients) = MaxRecipients
    /\ Len(req[1].results) = MaxRecipients
    /\ ~req[1].results[1].success
    /\ req[1].results[MaxRecipients].success
    /\ req[1].failures >= 1

====
